---- MODULE Spec2Model ----
(***************************************************************************)
(* The session telemetry log of IMPAD (SessionLogger), its producers       *)
(* (ActiveWindowMonitor, AudioListener), the orchestrator of src/src/main  *)
(* and the dashboard's reader of data/session_log.json.                    *)
(*                                                                         *)
(* Time is counted in milliseconds.  A thread inside a logger method moves *)
(* statement by statement (pc), so that interleavings of the statements of *)
(* different threads are visible; _flush is split into the open of the     *)
(* file (which truncates it), one write per top-level part of the JSON     *)
(* document, and the close.                                                *)
(***************************************************************************)
EXTENDS Integers, Sequences, FiniteSets, TLC

\* ---------------------------------------------------------------- bounds
MaxClock == 8        \* the clock stops advancing after this many ms
MaxCalls == 2        \* logger calls issued in one behaviour of Spec

\* ------------------------------------------------------------ data model
Threads == {"sampler", "listener", "main"}

None == -1           \* Optional[float] None (times are >= 0)

States == {"CODING", "RESEARCHING", "IDLE"}

ClockSteps == {4}    \* ms added by one advance of the wall clock

PendingSummary == [hard_score |-> 0, soft_score |-> 0, verdict |-> "PENDING"]

SessionDataAlreadyEnded(candidate, t) ==
    [session_id |-> "uuid4", candidate_id |-> candidate, started_at |-> t,
     events |-> << >>, ended_at |-> t, summary |-> PendingSummary]

\* SessionData as built by SessionLogger.__init__ at wall-clock time t
NewSessionData(candidate, t) ==
    [session_id |-> "uuid4", candidate_id |-> candidate, started_at |-> t,
     events |-> << >>, ended_at |-> None, summary |-> PendingSummary]

Event(t, type, payload) == [ts |-> t, type |-> type, payload |-> payload]

\* round(ts, 2): seconds with two decimals, i.e. the nearest multiple of 10 ms
Round2(ms) == ((ms + 5) \div 10) * 10

\* the analyzer's output mapping (opaque to the logger)
Analyses ==
    {[coherence |-> 85, terminology |-> 90, completeness |-> 60, comment |-> "ok"]}

Names == {"alice"}

HardScores == {50, 60}
SoftScores == {0}

\* main.py line 129
VerdictMain(hard) == IF hard >= 60 THEN "PASS" ELSE "FAIL"

\* main_role.py line 76
VerdictRole(hard, soft) == IF hard >= 60 /\ soft >= 60 THEN "PASS" ELSE "FAIL"

\* ------------------------------------------------- JSON (de)serialisation
\* json.dump(asdict(data)) as the sequence of pieces written to the file:
\* the opening part with the scalar members, one piece per event, and the
\* closing part with ended_at, summary and the final brace.
JsonNumberOrNull(x) == IF x = None THEN [null |-> TRUE, num |-> 0]
                                   ELSE [null |-> FALSE, num |-> x]

FromJsonNumberOrNull(j) == IF j.null THEN None ELSE j.num

JsonHead(d) == [part |-> "head", session_id |-> d.session_id,
                candidate_id |-> d.candidate_id, started_at |-> d.started_at]

JsonEvent(e) == [part |-> "event", ts |-> e.ts, type |-> e.type, payload |-> e.payload]

JsonTail(d) == [part |-> "tail", ended_at |-> JsonNumberOrNull(d.ended_at),
                summary |-> d.summary]

JsonDump(d) ==
    <<JsonHead(d)>> \o [i \in 1..Len(d.events) |-> JsonEvent(d.events[i])]
                    \o <<JsonTail(d)>>

\* json.load succeeds only on a complete document
WellFormed(f) ==
    /\ Len(f) >= 2
    /\ f[1].part = "head"
    /\ f[Len(f)].part = "tail"
    /\ \A i \in 2..(Len(f) - 1) : f[i].part = "event"

JsonLoadRecord(f) ==
    [session_id |-> f[1].session_id, candidate_id |-> f[1].candidate_id,
     started_at |-> f[1].started_at,
     events |-> [i \in 1..(Len(f) - 2) |->
                   Event(f[i + 1].ts, f[i + 1].type, f[i + 1].payload)],
     ended_at |-> FromJsonNumberOrNull(f[Len(f)].ended_at),
     summary |-> f[Len(f)].summary]

\* what a reader gets: the record, or a JSONDecodeError
JsonLoad(f) == IF WellFormed(f) THEN [ok |-> TRUE, rec |-> JsonLoadRecord(f)]
                                ELSE [ok |-> FALSE, rec |-> << >>]

\* the dashboard's completion poll: json.load, then `ended_at is not None`
\* and `any(type == "FINAL_ANALYSIS")`; a failed load is swallowed
Polled(f) ==
    IF JsonLoad(f).ok
      THEN [read |-> TRUE, ok |-> TRUE,
            ended |-> JsonLoad(f).rec.ended_at # None,
            has_final |-> \E i \in 1..Len(JsonLoad(f).rec.events) :
                             JsonLoad(f).rec.events[i].type = "FINAL_ANALYSIS"]
      ELSE [read |-> TRUE, ok |-> FALSE, ended |-> FALSE, has_final |-> FALSE]

\* --------------------------------------------------- window classification
\* a title is the sequence of its characters
CodingKeywords ==
    <<<<"c", "o", "d", "e">>,
      <<"p", "y", "c", "h", "a", "r", "m">>,
      <<"v", "i", "s", "u", "a", "l", " ", "s", "t", "u", "d", "i", "o">>,
      <<"s", "u", "b", "l", "i", "m", "e">>,
      <<"v", "i", "m">>,
      <<".", "p", "y">>,
      <<"m", "a", "i", "n", ".", "p", "y">>,
      <<"v", "s", "c", "o", "d", "e">>>>

ResearchingKeywords ==
    <<<<"c", "h", "r", "o", "m", "e">>,
      <<"f", "i", "r", "e", "f", "o", "x">>,
      <<"e", "d", "g", "e">>,
      <<"s", "t", "a", "c", "k", " ", "o", "v", "e", "r", "f", "l", "o", "w">>,
      <<"g", "o", "o", "g", "l", "e">>,
      <<"d", "o", "c", "u", "m", "e", "n", "t", "a", "t", "i", "o", "n">>,
      <<"g", "p", "t">>,
      <<"c", "l", "a", "u", "d", "e">>>>

\* the title _get_active_window_title returns when pygetwindow is missing
MockTitle == <<"M", "o", "c", "k", " ", "W", "i", "n", "d", "o", "w", " ", "-", " ", "G", "o", "o", "g", "l", "e", " ", "C", "h", "r", "o", "m", "e">>

\* titles the window system reports (already lower-cased by line 32)
WindowTitles == {<< >>, <<"v", "i", "m">>, <<"n", "o", "t", "e", "s">>}

LowerChar(c) ==
    CASE c = "A" -> "a"
      [] c = "B" -> "b"
      [] c = "C" -> "c"
      [] c = "D" -> "d"
      [] c = "E" -> "e"
      [] c = "F" -> "f"
      [] c = "G" -> "g"
      [] c = "H" -> "h"
      [] c = "I" -> "i"
      [] c = "J" -> "j"
      [] c = "K" -> "k"
      [] c = "L" -> "l"
      [] c = "M" -> "m"
      [] c = "N" -> "n"
      [] c = "O" -> "o"
      [] c = "P" -> "p"
      [] c = "Q" -> "q"
      [] c = "R" -> "r"
      [] c = "S" -> "s"
      [] c = "T" -> "t"
      [] c = "U" -> "u"
      [] c = "V" -> "v"
      [] c = "W" -> "w"
      [] c = "X" -> "x"
      [] c = "Y" -> "y"
      [] c = "Z" -> "z"
      [] OTHER -> c

LowerKeepsCase(title) == title

\* str.lower
Lower(title) == [i \in 1..Len(title) |-> LowerChar(title[i])]

\* `key in title`
Contains(title, key) ==
    \E i \in 0..(Len(title) - Len(key)) : SubSeq(title, i + 1, i + Len(key)) = key

ClassifyResearchingFirst(title) ==
    IF title = << >> THEN "IDLE"
    ELSE IF \E k \in 1..Len(ResearchingKeywords) :
                Contains(Lower(title), ResearchingKeywords[k])
           THEN "RESEARCHING"
    ELSE IF \E k \in 1..Len(CodingKeywords) : Contains(Lower(title), CodingKeywords[k])
           THEN "CODING"
    ELSE "IDLE"

\* _classify_state
ClassifyState(title) ==
    IF title = << >> THEN "IDLE"
    ELSE IF \E k \in 1..Len(CodingKeywords) : Contains(Lower(title), CodingKeywords[k])
           THEN "CODING"
    ELSE IF \E k \in 1..Len(ResearchingKeywords) :
                Contains(Lower(title), ResearchingKeywords[k])
           THEN "RESEARCHING"
    ELSE "IDLE"

\* ActiveWindowMonitor.calculate_hard_score of src/src/sensors
CalculateHardScore(st) ==
    IF st["CODING"] + st["RESEARCHING"] + st["IDLE"] = 0 THEN 0
    ELSE IF st["CODING"] > st["RESEARCHING"] THEN 80
    ELSE IF st["RESEARCHING"] > st["CODING"] * 2 THEN 50
    ELSE 65

\* run(self, interval=1.0), seconds
Interval == 1

\* scores analyzer.analyze_code returns for the submitted solution
CodeScores == {0, 70}

\* what recognize_google returns for a chunk that was understood
Transcripts == {"two words"}

\* round((coherence + terminology + completeness) / 3)
SoftScoreOf(a) == (2 * (a.coherence + a.terminology + a.completeness) + 3) \div 6

\* ------------------------------------------------------------------ state
VARIABLES
    now,        \* time.time(), ms
    data,       \* SessionLogger.data
    locked,     \* SessionLogger.lock is held
    pc,         \* per thread: the statement of the logger method it is at
    op,         \* per thread: the logger call in progress [kind, arg]
    ts,         \* per thread: the local ts of log_state/log_clarity/log_event
    file,       \* content of data/session_log.json, as written pieces
    ret,        \* per thread: outcome of its last logger call
    snapshot,   \* what the dashboard's poll saw in its last json.load
    failed,     \* history: some _flush has raised
    calls,      \* logger calls issued so far
    issued,     \* history: append calls in the order they were issued
    acquired,   \* history: append calls in the order they took the lock
    lastRet,    \* history: outcome of the most recently completed call
    persisted,  \* history: the record written by the last _flush that returned
    ppc,        \* per thread: where it is in main / run / _listen_loop
    running,    \* monitor.running and listener.running
    stopFile,   \* the STOP_SESSION marker file exists
    gw,         \* pygetwindow could be imported
    title,      \* run: local title
    last_title, \* run: local last_title
    stats,      \* monitor.stats
    ticks,      \* iterations of the sampler loop started
    chunks,     \* len(listener.audio_buffer)
    full_transcript,  \* listener.full_transcript
    final_analysis,   \* main: local final_analysis (None or the mapping)
    new_state,              \* run: local new_state
    last_inactivity_state,  \* run of src/sensor.py: local last_inactivity_state
    inactive_typing_periods, \* monitor.inactive_typing_periods
    total_inactive_time,    \* monitor.total_inactive_time, s
    score,                  \* what calculate_hard_score returned (None before)
    transcript_index,       \* main_role: local transcript_index
    soft_scores,            \* main_role: local soft_scores, each entry times 3
    stop_in_loop,   \* history: stop() ran while the sampler loop was executing
    after_stop,     \* history: what the sampler loop did after that stop()
    transcript,     \* analyze: the argument transcript
    mode,           \* analyzer.mode
    result,         \* what analyze returned, or that it raised
    retry_count,    \* _analyze_with_openai: the argument retry_count
    llm_invoked,    \* history: analyze called self.llm.analyze or the API
    attempts,       \* history: how each request of _analyze_with_openai ended
    last_keystroke_time,  \* monitor.last_keystroke_time, ms
    keyboard_inactive,  \* what _check_keyboard_inactivity returned at this instant
    pressed_at,     \* history: when the most recent key was pressed, ms
    balance_score,          \* calculate_hard_score: local balance_score
    inactivity_adjustment,  \* calculate_hard_score: local inactivity_adjustment
    entries,                \* Leaderboard.entries
    leaderboard_file        \* data/leaderboard.json: the saved list

logVars == <<now, data, locked, pc, op, ts, file, ret, snapshot, failed,
             calls, issued, acquired, lastRet, persisted>>

progVars == <<ppc, running, stopFile, gw, title, last_title, stats, ticks,
              chunks, full_transcript, final_analysis>>

roleVars == <<new_state, last_inactivity_state, inactive_typing_periods,
              total_inactive_time, score, transcript_index, soft_scores,
              stop_in_loop, after_stop>>

analyzerVars == <<transcript, mode, result, retry_count, llm_invoked, attempts>>

keyboardVars == <<last_keystroke_time, keyboard_inactive, pressed_at>>

leaderboardVars == <<entries, leaderboard_file>>

unitVars == <<analyzerVars, keyboardVars, balance_score, inactivity_adjustment,
              leaderboardVars>>

vars == <<logVars, progVars, roleVars, unitVars>>

NoOp == [kind |-> "none", arg |-> "none"]

AppendKinds == {"log_state", "log_clarity", "log_event"}

\* the statements of a thread that are inside `with self.lock`
CSLabels == {"ts", "append", "ended_at", "summary", "candidate_id",
             "open", "write", "close"}

InCS(t) == pc[t] \in CSLabels

\* type and payload of the Event a call builds (lines 55, 63, 71)
EventType(o) ==
    CASE o.kind = "log_state" -> "STATE"
      [] o.kind = "log_clarity" -> "CLARITY"
      [] o.kind = "log_event" -> o.arg.event_type

EventPayload(o) ==
    CASE o.kind = "log_state" -> [state |-> o.arg]
      [] o.kind = "log_clarity" -> o.arg
      [] o.kind = "log_event" -> o.arg.payload

\* the calls each flow of the program makes on the logger
CallsOf(t) ==
    CASE t = "sampler" -> {[kind |-> "log_state", arg |-> s] : s \in States}
      [] t = "listener" -> {[kind |-> "log_clarity", arg |-> a] : a \in Analyses}
      [] t = "main" ->
            {[kind |-> "log_event",
              arg |-> [event_type |-> "FINAL_ANALYSIS", payload |-> a]] : a \in Analyses}
            \cup {[kind |-> "finish_session",
                   arg |-> [hard_score |-> h, soft_score |-> s, verdict |-> VerdictMain(h)]] :
                     h \in HardScores, s \in SoftScores}
            \cup {[kind |-> "finish_session",
                   arg |-> [hard_score |-> h, soft_score |-> s,
                            verdict |-> VerdictRole(h, s)]] :
                     h \in HardScores, s \in SoftScores}
            \cup {[kind |-> "update_candidate_id", arg |-> n] : n \in Names}

InitLog ==
    /\ now = 0
    /\ data = NewSessionData("hacker_007", 0)
    /\ locked = FALSE
    /\ pc = [t \in Threads |-> "idle"]
    /\ op = [t \in Threads |-> NoOp]
    /\ ts = [t \in Threads |-> 0]
    /\ file = JsonDump(NewSessionData("hacker_007", 0))
    /\ ret = [t \in Threads |-> "none"]
    /\ snapshot = [read |-> FALSE, ok |-> FALSE, ended |-> FALSE, has_final |-> FALSE]
    /\ failed = FALSE
    /\ calls = 0
    /\ issued = << >>
    /\ acquired = << >>
    /\ lastRet = "none"
    /\ persisted = NewSessionData("hacker_007", 0)

\* ------------------------------------------------------- logger statements
LockNotExclusive == TRUE

\* `with self.lock` can be entered
LockFree == ~locked

\* ts = time.time() - self.data.started_at; round(ts, 2)
RelativeTs == Round2(now - data.started_at)

EventsAfterPrepend(ev) == <<ev>> \o data.events

\* self.data.events.append(event)
EventsAfterAppend(ev) == Append(data.events, ev)

SummaryKeepingVerdict(a) ==
    [hard_score |-> a.hard_score, soft_score |-> a.soft_score,
     verdict |-> data.summary.verdict]

\* the summary finish_session stores
SummaryOf(a) == [hard_score |-> a.hard_score, soft_score |-> a.soft_score,
                 verdict |-> a.verdict]

EndedAtKeptOnceSet(t) == IF data.ended_at # None THEN data.ended_at ELSE t

\* self.data.ended_at = time.time()
EndedAtOf(t) == t

RecordRestartedOnRename(new_id) ==
    [data EXCEPT !.candidate_id = new_id, !.started_at = now]

RecordRebuiltOnRename(new_id) ==
    [NewSessionData(new_id, data.started_at) EXCEPT !.events = data.events,
                                                    !.summary = data.summary]

\* self.data.candidate_id = new_id
RecordAfterRename(new_id) == [data EXCEPT !.candidate_id = new_id]

FlushContentWithoutLastEvent ==
    JsonDump([data EXCEPT !.events = SubSeq(data.events, 1, Len(data.events) - 1)])

\* what _flush serialises
FlushContent == JsonDump(data)

RecordRolledBackAfterRaise(o) ==
    IF o.kind \in AppendKinds
      THEN [data EXCEPT !.events = SubSeq(data.events, 1, Len(data.events) - 1)]
      ELSE data

\* the record after an exception has left a method of kind o: no handler
\* undoes the assignments made before _flush
RecordAfterRaise(o) == data

LockKeptAfterRaise == TRUE

\* state of the lock after an exception has left `with self.lock`
LockAfterRaise == FALSE

\* a thread enters a logger method and reaches `with self.lock`
Issue(t, o) ==
    /\ pc[t] = "idle"
    /\ pc' = [pc EXCEPT ![t] = "lock"]
    /\ op' = [op EXCEPT ![t] = o]
    /\ ret' = [ret EXCEPT ![t] = "none"]
    /\ calls' = calls + 1
    /\ issued' = IF o.kind \in AppendKinds
                   THEN Append(issued, [thread |-> t, type |-> EventType(o)])
                   ELSE issued
    /\ UNCHANGED <<now, data, locked, ts, file, snapshot, failed,
                   acquired, lastRet, persisted>>

Acquire(t) ==
    /\ pc[t] = "lock"
    /\ LockFree
    /\ locked' = TRUE
    /\ pc' = [pc EXCEPT ![t] =
                CASE op[t].kind \in AppendKinds -> "ts"
                  [] op[t].kind = "finish_session" -> "ended_at"
                  [] op[t].kind = "update_candidate_id" -> "candidate_id"]
    /\ acquired' = IF op[t].kind \in AppendKinds
                     THEN Append(acquired, [thread |-> t, type |-> EventType(op[t]),
                                            payload |-> EventPayload(op[t])])
                     ELSE acquired
    /\ UNCHANGED <<now, data, op, ts, file, ret, snapshot, failed,
                   calls, issued, lastRet, persisted>>
    /\ UNCHANGED <<progVars, roleVars, unitVars>>

ReadClock(t) ==
    /\ pc[t] = "ts"
    /\ ts' = [ts EXCEPT ![t] = RelativeTs]
    /\ pc' = [pc EXCEPT ![t] = "append"]
    /\ UNCHANGED <<now, data, locked, op, file, ret, snapshot, failed,
                   calls, issued, acquired, lastRet, persisted>>
    /\ UNCHANGED <<progVars, roleVars, unitVars>>

AppendEvent(t) ==
    /\ pc[t] = "append"
    /\ data' = [data EXCEPT !.events =
                  EventsAfterAppend(Event(ts[t], EventType(op[t]), EventPayload(op[t])))]
    /\ pc' = [pc EXCEPT ![t] = "open"]
    /\ UNCHANGED <<now, locked, op, ts, file, ret, snapshot, failed,
                   calls, issued, acquired, lastRet, persisted>>
    /\ UNCHANGED <<progVars, roleVars, unitVars>>

SetEndedAt(t) ==
    /\ pc[t] = "ended_at"
    /\ data' = [data EXCEPT !.ended_at = EndedAtOf(now)]
    /\ pc' = [pc EXCEPT ![t] = "summary"]
    /\ UNCHANGED <<now, locked, op, ts, file, ret, snapshot, failed,
                   calls, issued, acquired, lastRet, persisted>>
    /\ UNCHANGED <<progVars, roleVars, unitVars>>

SetSummary(t) ==
    /\ pc[t] = "summary"
    /\ data' = [data EXCEPT !.summary = SummaryOf(op[t].arg)]
    /\ pc' = [pc EXCEPT ![t] = "open"]
    /\ UNCHANGED <<now, locked, op, ts, file, ret, snapshot, failed,
                   calls, issued, acquired, lastRet, persisted>>
    /\ UNCHANGED <<progVars, roleVars, unitVars>>

SetCandidate(t) ==
    /\ pc[t] = "candidate_id"
    /\ data' = RecordAfterRename(op[t].arg)
    /\ pc' = [pc EXCEPT ![t] = "open"]
    /\ UNCHANGED <<now, locked, op, ts, file, ret, snapshot, failed,
                   calls, issued, acquired, lastRet, persisted>>
    /\ UNCHANGED <<progVars, roleVars, unitVars>>

\* _flush: open(self.filepath, 'w') truncates the file
FlushOpen(t) ==
    /\ pc[t] = "open"
    /\ file' = << >>
    /\ pc' = [pc EXCEPT ![t] = "write"]
    /\ UNCHANGED <<now, data, locked, op, ts, ret, snapshot, failed,
                   calls, issued, acquired, lastRet, persisted>>
    /\ UNCHANGED <<progVars, roleVars, unitVars>>

\* _flush: json.dump writes the next piece of the document
FlushWrite(t) ==
    /\ pc[t] = "write"
    /\ IF Len(file) < Len(FlushContent)
         THEN /\ file' = Append(file, FlushContent[Len(file) + 1])
              /\ pc' = [pc EXCEPT ![t] =
                          IF Len(file') = Len(FlushContent) THEN "close" ELSE "write"]
         ELSE /\ file' = file
              /\ pc' = [pc EXCEPT ![t] = "close"]
    /\ UNCHANGED <<now, data, locked, op, ts, ret, snapshot, failed,
                   calls, issued, acquired, lastRet, persisted>>
    /\ UNCHANGED <<progVars, roleVars, unitVars>>

\* _flush raises (open or a write fails): the exception leaves `with open`
\* and `with self.lock` and reaches the caller of the logger method
FlushFail(t) ==
    /\ pc[t] \in {"open", "write"}
    /\ failed' = TRUE
    /\ locked' = LockAfterRaise
    /\ pc' = [pc EXCEPT ![t] = "idle"]
    /\ op' = [op EXCEPT ![t] = NoOp]
    /\ ret' = [ret EXCEPT ![t] = "error"]
    /\ lastRet' = "error"
    /\ ts' = [ts EXCEPT ![t] = 0]
    /\ data' = RecordAfterRaise(op[t])
    /\ UNCHANGED <<now, file, snapshot, calls, issued, acquired, persisted>>
    /\ UNCHANGED <<progVars, roleVars, unitVars>>

\* the file is closed, the lock released, the method returns
Return(t) ==
    /\ pc[t] = "close"
    /\ locked' = FALSE
    /\ pc' = [pc EXCEPT ![t] = "idle"]
    /\ op' = [op EXCEPT ![t] = NoOp]
    /\ ret' = [ret EXCEPT ![t] = "ok"]
    /\ lastRet' = "ok"
    /\ ts' = [ts EXCEPT ![t] = 0]
    /\ persisted' = data
    /\ UNCHANGED <<now, data, file, snapshot, failed, calls, issued, acquired>>
    /\ UNCHANGED <<progVars, roleVars, unitVars>>

\* the wall clock advances
Tick ==
    /\ \E d \in ClockSteps : now + d <= MaxClock /\ now' = now + d
    /\ UNCHANGED <<data, locked, pc, op, ts, file, ret, snapshot, failed,
                   calls, issued, acquired, lastRet, persisted>>
    /\ UNCHANGED <<progVars, roleVars, unitVars>>

\* the dashboard opens data/session_log.json and calls json.load
Load ==
    /\ snapshot' = Polled(file)
    /\ UNCHANGED <<now, data, locked, pc, op, ts, file, ret, failed, calls,
                   issued, acquired, lastRet, persisted>>
    /\ UNCHANGED <<progVars, roleVars, unitVars>>

\* a flow of the program calls one of its logger methods
Call(t) ==
    /\ calls < MaxCalls
    /\ \E o \in CallsOf(t) : Issue(t, o)
    /\ UNCHANGED <<progVars, roleVars, unitVars>>

\* what no call of analyze has returned yet
NoResult == [status |-> "none"]

\* ClarityAnalyzer(mode=m) exists and analyze is about to get the transcript tr
InitAnalyzer(m, tr) ==
    /\ mode = m
    /\ transcript = tr
    /\ result = NoResult
    /\ retry_count = 0
    /\ llm_invoked = FALSE
    /\ attempts = << >>

\* the monitor, the listener and main's locals, with the monitor's
\* accumulators holding st and inactive after n iterations of its loop and
\* the loop's local title holding w
InitMonitorWith(st, inactive, n, w) ==
    /\ running = [t \in {"sampler", "listener"} |-> FALSE]
    /\ stopFile = FALSE
    /\ title = w
    /\ last_title = << >>
    /\ stats = st
    /\ ticks = n
    /\ chunks = 0
    /\ full_transcript = << >>
    /\ final_analysis = FALSE
    /\ new_state = "none"
    /\ last_inactivity_state = FALSE
    /\ inactive_typing_periods = (IF inactive > 0 THEN 1 ELSE 0)
    /\ total_inactive_time = inactive
    /\ score = None
    /\ transcript_index = 0
    /\ soft_scores = << >>
    /\ stop_in_loop = FALSE
    /\ after_stop = [iterations |-> 0, appends |-> 0, updates |-> 0]
    /\ last_keystroke_time = 0
    /\ keyboard_inactive = "none"
    /\ pressed_at = 0
    /\ balance_score = None
    /\ inactivity_adjustment = None
    /\ entries = << >>
    /\ leaderboard_file = << >>

\* the same, and an analyzer of the fake mode that has analysed nothing
InitObjectsWith(st, inactive, n, w) ==
    /\ InitMonitorWith(st, inactive, n, w)
    /\ InitAnalyzer("fake", << >>)

\* the monitor, the listener and main's locals right after construction
InitObjects == InitObjectsWith([s \in States |-> 0], 0, 0, << >>)

\* the objects of main.py lines 19-30 exist, no thread has been started
InitProg ==
    /\ ppc = [t \in Threads |-> IF t = "main" THEN "start_sampler" ELSE "created"]
    /\ InitObjects

Init == InitLog /\ InitProg /\ gw = TRUE

Next ==
    \/ \E t \in Threads : Call(t)
    \/ \E t \in Threads : Acquire(t)
    \/ \E t \in Threads : ReadClock(t)
    \/ \E t \in Threads : AppendEvent(t)
    \/ \E t \in Threads : SetEndedAt(t)
    \/ \E t \in Threads : SetSummary(t)
    \/ \E t \in Threads : SetCandidate(t)
    \/ \E t \in Threads : FlushOpen(t)
    \/ \E t \in Threads : FlushWrite(t)
    \/ \E t \in Threads : FlushFail(t)
    \/ \E t \in Threads : Return(t)
    \/ Tick

\* the logger and its callers
Spec == Init /\ [][Next]_vars

NextRead ==
    \/ Next
    \/ Load

\* the logger, its callers and the dashboard reading the file
SpecRead == Init /\ [][NextRead]_vars

\* ------------------------------------------- the program of src/src/main.py
MaxTicks == 1        \* iterations of the sampler loop in one behaviour
MaxChunks == 1       \* chunks recorded by the listener in one behaviour

\* the process exists: main() has neither returned nor died, so its daemon
\* threads still run
Alive == ppc["main"] \notin {"done", "crashed"}

ActiveWindowTitlesWithoutFallback == WindowTitles

\* _get_active_window_title
ActiveWindowTitles == IF gw THEN WindowTitles ELSE {MockTitle}

\* the record after the assignments of logger call o (made under the lock)
DataAfter(o) ==
    CASE o.kind \in AppendKinds ->
           [data EXCEPT !.events =
              EventsAfterAppend(Event(RelativeTs, EventType(o), EventPayload(o)))]
      [] o.kind = "finish_session" ->
           [data EXCEPT !.ended_at = EndedAtOf(now), !.summary = SummaryOf(o.arg)]
      [] o.kind = "update_candidate_id" -> RecordAfterRename(o.arg)

\* what a _flush of record d that raises leaves in the file: the old content
\* when open fails, otherwise a proper prefix of the document
FilesAfterFailedFlush(d) ==
    {file} \cup {SubSeq(JsonDump(d), 1, n) : n \in 0..(Len(JsonDump(d)) - 1)}

\* outcomes of a _flush: it succeeds, or (at most once in a behaviour of the
\* program) it raises
FlushOutcomes == IF failed THEN {TRUE} ELSE BOOLEAN

\* One whole logger call by thread t: lock, assignments, _flush, unlock.
\* The lock makes the calls of different threads mutually exclusive, so the
\* program's threads see each call as one step; ok tells whether _flush
\* succeeded.
CallLogger(t, o, ok) ==
    /\ data' = DataAfter(o)
    /\ IF ok THEN file' = JsonDump(DataAfter(o))
             ELSE file' \in FilesAfterFailedFlush(DataAfter(o))
    /\ failed' = (failed \/ ~ok)
    /\ ret' = [ret EXCEPT ![t] = IF ok THEN "ok" ELSE "error"]
    /\ lastRet' = IF ok THEN "ok" ELSE "error"
    /\ persisted' = IF ok THEN DataAfter(o) ELSE persisted
    /\ calls' = calls + 1
    /\ issued' = IF o.kind \in AppendKinds
                   THEN Append(issued, [thread |-> t, type |-> EventType(o)])
                   ELSE issued
    /\ acquired' = IF o.kind \in AppendKinds
                     THEN Append(acquired, [thread |-> t, type |-> EventType(o),
                                            payload |-> EventPayload(o)])
                     ELSE acquired
    /\ UNCHANGED <<now, locked, pc, op, ts, snapshot>>

\* main: t = threading.Thread(target=monitor.run); t.start()
MainStartSampler ==
    /\ ppc["main"] = "start_sampler"
    /\ ppc' = [ppc EXCEPT !["main"] = "start_listener", !["sampler"] = "run"]
    /\ UNCHANGED <<logVars, running, stopFile, gw, title, last_title, stats, ticks,
                   chunks, full_transcript, final_analysis>>
    /\ UNCHANGED <<roleVars, unitVars>>

\* main: listener.start() (AudioListener.start)
MainStartListener ==
    /\ ppc["main"] = "start_listener"
    /\ running' = [running EXCEPT !["listener"] = TRUE]
    /\ ppc' = [ppc EXCEPT !["main"] = "wait", !["listener"] = "loop"]
    /\ UNCHANGED <<logVars, stopFile, gw, title, last_title, stats, ticks,
                   chunks, full_transcript, final_analysis>>
    /\ UNCHANGED <<roleVars, unitVars>>

\* the dashboard's Submit Solution writes STOP_SESSION
DashboardStop ==
    /\ Alive
    /\ ~stopFile
    /\ ppc["main"] \in {"start_sampler", "start_listener", "wait"}
    /\ stopFile' = TRUE
    /\ UNCHANGED <<logVars, ppc, running, gw, title, last_title, stats, ticks,
                   chunks, full_transcript, final_analysis>>
    /\ UNCHANGED <<roleVars, unitVars>>

\* main: one pass of the wait loop that finds the marker, removes it and
\* breaks (a pass that finds none sleeps and changes nothing)
MainWaitStop ==
    /\ ppc["main"] = "wait"
    /\ stopFile
    /\ stopFile' = FALSE
    /\ ppc' = [ppc EXCEPT !["main"] = "stop_monitor"]
    /\ UNCHANGED <<logVars, running, gw, title, last_title, stats, ticks,
                   chunks, full_transcript, final_analysis>>
    /\ UNCHANGED <<roleVars, unitVars>>

\* main: KeyboardInterrupt in the wait loop
MainInterrupt ==
    /\ ppc["main"] = "wait"
    /\ ppc' = [ppc EXCEPT !["main"] = "stop_monitor"]
    /\ UNCHANGED <<logVars, running, stopFile, gw, title, last_title, stats, ticks,
                   chunks, full_transcript, final_analysis>>
    /\ UNCHANGED <<roleVars, unitVars>>

MainLeavesMonitorRunning ==
    /\ ppc["main"] = "stop_monitor"
    /\ ppc' = [ppc EXCEPT !["main"] = "stop_listener"]
    /\ UNCHANGED <<logVars, running, stopFile, gw, title, last_title, stats, ticks,
                   chunks, full_transcript, final_analysis>>
    /\ UNCHANGED <<roleVars, unitVars>>

\* main: monitor.stop()
MainStopMonitor ==
    /\ ppc["main"] = "stop_monitor"
    /\ running' = [running EXCEPT !["sampler"] = FALSE]
    /\ ppc' = [ppc EXCEPT !["main"] = "stop_listener"]
    /\ UNCHANGED <<logVars, stopFile, gw, title, last_title, stats, ticks,
                   chunks, full_transcript, final_analysis>>
    /\ UNCHANGED <<roleVars, unitVars>>

\* main: listener.stop(): running = False, then thread.join(timeout=1),
\* which returns when the thread has ended or after 1 s
MainStopListener ==
    /\ ppc["main"] = "stop_listener"
    /\ running' = [running EXCEPT !["listener"] = FALSE]
    /\ ppc' = [ppc EXCEPT !["main"] = "join_sampler"]
    /\ UNCHANGED <<logVars, stopFile, gw, title, last_title, stats, ticks,
                   chunks, full_transcript, final_analysis>>
    /\ UNCHANGED <<roleVars, unitVars>>

\* main: t.join(timeout=1) returns when run() has ended or after 1 s
MainJoinSampler ==
    /\ ppc["main"] = "join_sampler"
    /\ ppc' = [ppc EXCEPT !["main"] = "final_analysis"]
    /\ UNCHANGED <<logVars, running, stopFile, gw, title, last_title, stats, ticks,
                   chunks, full_transcript, final_analysis>>
    /\ UNCHANGED <<roleVars, unitVars>>

\* main lines 69-82: with a transcript, analyse it and log FINAL_ANALYSIS;
\* an exception of analyze leaves final_analysis None, one of log_event
\* leaves it set, and both are caught at line 79
MainFinalAnalysis ==
    /\ ppc["main"] = "final_analysis"
    /\ IF full_transcript # << >>
         THEN \/ \E a \in Analyses, ok \in FlushOutcomes :
                    /\ final_analysis' = TRUE
                    /\ CallLogger("main", [kind |-> "log_event",
                                           arg |-> [event_type |-> "FINAL_ANALYSIS",
                                                    payload |-> a]], ok)
              \/ UNCHANGED <<logVars, final_analysis>>
         ELSE UNCHANGED <<logVars, final_analysis>>
    /\ ppc' = [ppc EXCEPT !["main"] = "score"]
    /\ UNCHANGED <<running, stopFile, gw, title, last_title, stats, ticks,
                   chunks, full_transcript>>
    /\ UNCHANGED <<roleVars, unitVars>>

MainFinishBeforeAnalysis ==
    /\ ppc["main"] = "join_sampler"
    /\ \E code_score \in CodeScores, a \in Analyses, ok \in FlushOutcomes :
          \E time_score \in {CalculateHardScore(stats)} :
          \E hard_score \in {IF code_score > 0
                               THEN (time_score + code_score) \div 2
                               ELSE time_score} :
          \E soft_score \in {IF full_transcript # << >> /\ final_analysis
                               THEN SoftScoreOf(a) ELSE 0} :
          \E summary \in {[hard_score |-> hard_score,
                           soft_score |-> soft_score,
                           verdict |-> VerdictMain(hard_score)]} :
              /\ CallLogger("main", [kind |-> "finish_session", arg |-> summary], ok)
              /\ ppc' = [ppc EXCEPT !["main"] = IF ok THEN "final_analysis" ELSE "crashed"]
    /\ UNCHANGED <<running, stopFile, gw, title, last_title, stats, ticks,
                   chunks, full_transcript, final_analysis>>
    /\ UNCHANGED <<roleVars, unitVars>>

\* main lines 84-135: the scores, the verdict and finish_session; an
\* exception of finish_session leaves main() and ends the process
MainFinish ==
    /\ ppc["main"] = "score"
    /\ \E code_score \in CodeScores, a \in Analyses, ok \in FlushOutcomes :
          \E time_score \in {CalculateHardScore(stats)} :
          \E hard_score \in {IF code_score > 0
                               THEN (time_score + code_score) \div 2
                               ELSE time_score} :
          \E soft_score \in {IF full_transcript # << >> /\ final_analysis
                               THEN SoftScoreOf(a) ELSE 0} :
          \E summary \in {[hard_score |-> hard_score,
                           soft_score |-> soft_score,
                           verdict |-> VerdictMain(hard_score)]} :
              /\ CallLogger("main", [kind |-> "finish_session", arg |-> summary], ok)
              /\ ppc' = [ppc EXCEPT !["main"] = IF ok THEN "leaderboard" ELSE "crashed"]
    /\ UNCHANGED <<running, stopFile, gw, title, last_title, stats, ticks,
                   chunks, full_transcript, final_analysis>>
    /\ UNCHANGED <<roleVars, unitVars>>

\* main lines 139-167: the name typed by the user; a non-empty name is
\* stored with update_candidate_id, whose exception is caught at line 166
MainLeaderboard ==
    /\ ppc["main"] = "leaderboard"
    /\ \/ UNCHANGED logVars
       \/ \E name \in Names, ok \in FlushOutcomes :
             CallLogger("main", [kind |-> "update_candidate_id", arg |-> name], ok)
    /\ ppc' = [ppc EXCEPT !["main"] = "done"]
    /\ UNCHANGED <<running, stopFile, gw, title, last_title, stats, ticks,
                   chunks, full_transcript, final_analysis>>
    /\ UNCHANGED <<roleVars, unitVars>>

\* ActiveWindowMonitor.run lines 55-57
SamplerRunStart ==
    /\ Alive
    /\ ppc["sampler"] = "run"
    /\ running' = [running EXCEPT !["sampler"] = TRUE]
    /\ last_title' = << >>
    /\ ppc' = [ppc EXCEPT !["sampler"] = "loop"]
    /\ UNCHANGED <<logVars, stopFile, gw, title, stats, ticks, chunks,
                   full_transcript, final_analysis>>
    /\ UNCHANGED <<roleVars, unitVars>>

\* line 61, `while self.running`: the next iteration starts or run returns
SamplerLoopTest ==
    /\ Alive
    /\ ppc["sampler"] = "loop"
    /\ running["sampler"] => ticks < MaxTicks
    /\ ticks' = IF running["sampler"] THEN ticks + 1 ELSE ticks
    /\ ppc' = [ppc EXCEPT !["sampler"] = IF running["sampler"] THEN "body" ELSE "exited"]
    /\ UNCHANGED <<logVars, running, stopFile, gw, title, last_title, stats,
                   chunks, full_transcript, final_analysis>>
    /\ UNCHANGED <<roleVars, unitVars>>

\* lines 62-73: the title is read and classified and a changed title is
\* logged; an exception of log_state leaves run() and ends the thread
SamplerBody ==
    /\ Alive
    /\ ppc["sampler"] = "body"
    /\ \E w \in ActiveWindowTitles :
          /\ title' = w
          /\ IF w # last_title
               THEN \E ok \in FlushOutcomes :
                       /\ CallLogger("sampler",
                                     [kind |-> "log_state", arg |-> ClassifyState(w)], ok)
                       /\ last_title' = IF ok THEN w ELSE last_title
                       /\ ppc' = [ppc EXCEPT !["sampler"] =
                                    IF ok THEN "accumulate" ELSE "dead"]
               ELSE /\ ppc' = [ppc EXCEPT !["sampler"] = "accumulate"]
                    /\ UNCHANGED <<logVars, last_title>>
    /\ UNCHANGED <<running, stopFile, gw, stats, ticks, chunks,
                   full_transcript, final_analysis>>
    /\ UNCHANGED <<roleVars, unitVars>>

\* lines 75-77: self.stats[new_state] += interval; time.sleep(interval)
SamplerAccumulate ==
    /\ Alive
    /\ ppc["sampler"] = "accumulate"
    /\ stats' = [stats EXCEPT ![ClassifyState(title)] = @ + Interval]
    /\ ppc' = [ppc EXCEPT !["sampler"] = "loop"]
    /\ UNCHANGED <<logVars, running, stopFile, gw, title, last_title, ticks, chunks,
                   full_transcript, final_analysis>>
    /\ UNCHANGED <<roleVars, unitVars>>

\* AudioListener._listen_loop line 38, `while self.running`
ListenerLoopTest ==
    /\ Alive
    /\ ppc["listener"] = "loop"
    /\ running["listener"] => chunks < MaxChunks
    /\ ppc' = [ppc EXCEPT !["listener"] =
                 IF running["listener"] THEN "record" ELSE "exited"]
    /\ UNCHANGED <<logVars, running, stopFile, gw, title, last_title, stats, ticks,
                   chunks, full_transcript, final_analysis>>
    /\ UNCHANGED <<roleVars, unitVars>>

\* lines 40-54: a chunk is recorded and kept; a quiet chunk is skipped; a
\* failed recording lands in the except of line 91
ListenerRecord ==
    /\ Alive
    /\ ppc["listener"] = "record"
    /\ \E outcome \in {"loud", "quiet", "error"} :
          /\ chunks' = chunks + 1
          /\ ppc' = [ppc EXCEPT !["listener"] =
                       IF outcome = "loud" THEN "transcribe" ELSE "loop"]
    /\ UNCHANGED <<logVars, running, stopFile, gw, title, last_title, stats, ticks,
                   full_transcript, final_analysis>>
    /\ UNCHANGED <<roleVars, unitVars>>

\* lines 57-93: the chunk is transcribed; a transcript of two or more words
\* is kept, analysed and logged with log_clarity, whose exception is caught
\* at line 91
ListenerTranscribe ==
    /\ Alive
    /\ ppc["listener"] = "transcribe"
    /\ \/ UNCHANGED <<logVars, full_transcript>>
       \/ \E tr \in Transcripts, a \in Analyses, ok \in FlushOutcomes :
             /\ full_transcript' = Append(full_transcript, tr)
             /\ CallLogger("listener", [kind |-> "log_clarity", arg |-> a], ok)
    /\ ppc' = [ppc EXCEPT !["listener"] = "loop"]
    /\ UNCHANGED <<running, stopFile, gw, title, last_title, stats, ticks, chunks,
                   final_analysis>>
    /\ UNCHANGED <<roleVars, unitVars>>

InitMain == InitLog /\ InitProg /\ gw \in BOOLEAN

NextMain ==
    \/ MainStartSampler
    \/ MainStartListener
    \/ DashboardStop
    \/ MainWaitStop
    \/ MainInterrupt
    \/ MainStopMonitor
    \/ MainStopListener
    \/ MainJoinSampler
    \/ MainFinalAnalysis
    \/ MainFinish
    \/ MainLeaderboard
    \/ SamplerRunStart
    \/ SamplerLoopTest
    \/ SamplerBody
    \/ SamplerAccumulate
    \/ ListenerLoopTest
    \/ ListenerRecord
    \/ ListenerTranscribe

\* the orchestrator of src/src/main.py with its sampler and listener threads
SpecMain == InitMain /\ [][NextMain]_vars

\* the statements of main() after the threads are started, up to and
\* including finish_session: none of them waits without a bound (the wait
\* loop sleeps 1 s, both joins have timeout=1)
MainProgress ==
    \/ MainWaitStop
    \/ MainStopMonitor
    \/ MainStopListener
    \/ MainJoinSampler
    \/ MainFinalAnalysis
    \/ MainFinish

\* step A of a behaviour in which no _flush raises
NoRaise(A) == A /\ ~failed'

NextMainNoRaise ==
    \/ NoRaise(MainStartSampler)
    \/ NoRaise(MainStartListener)
    \/ NoRaise(DashboardStop)
    \/ NoRaise(MainWaitStop)
    \/ NoRaise(MainInterrupt)
    \/ NoRaise(MainStopMonitor)
    \/ NoRaise(MainStopListener)
    \/ NoRaise(MainJoinSampler)
    \/ NoRaise(MainFinalAnalysis)
    \/ NoRaise(MainFinish)
    \/ NoRaise(MainLeaderboard)
    \/ NoRaise(SamplerRunStart)
    \/ NoRaise(SamplerLoopTest)
    \/ NoRaise(SamplerBody)
    \/ NoRaise(SamplerAccumulate)
    \/ NoRaise(ListenerLoopTest)
    \/ NoRaise(ListenerRecord)
    \/ NoRaise(ListenerTranscribe)

\* the orchestrator whose main thread keeps running, in the behaviours in
\* which every _flush succeeds; KeyboardInterrupt, the dashboard and the
\* daemon threads are under no obligation
SpecMainFair == InitMain /\ [][NextMainNoRaise]_vars /\ WF_vars(NoRaise(MainProgress))

\* ------------------------------------ src/sensor.py and src/main_role.py
MaxRoleTicks == 2    \* iterations of the sampler loop of src/sensor.py
MaxSpeech == 1       \* passes of main_role's speaking loop that log a transcript

\* int(x) of Python for the quotient n / d with d > 0: truncation toward zero
TruncDiv(n, d) == IF n >= 0 THEN n \div d ELSE -((-n) \div d)

BalanceScoreOpenBand(coding, productive) ==
    IF productive > 0 /\ 6 * productive < 10 * coding /\ 10 * coding < 8 * productive
      THEN 50
    ELSE IF productive > 0 /\ 4 * productive <= 10 * coding /\ 10 * coding <= 6 * productive
      THEN 35
    ELSE IF productive > 0 /\ 8 * productive <= 10 * coding /\ coding <= productive
      THEN 40
    ELSE 20

\* lines 154-161, coding_ratio = coding / productive (0 when productive is 0)
BalanceScore(coding, productive) ==
    IF productive > 0 /\ 6 * productive <= 10 * coding /\ 10 * coding <= 8 * productive
      THEN 50
    ELSE IF productive > 0 /\ 4 * productive <= 10 * coding /\ 10 * coding < 6 * productive
      THEN 35
    ELSE IF productive > 0 /\ 8 * productive < 10 * coding /\ coding <= productive
      THEN 40
    ELSE 20

IdlePenaltyDoubled(idle, total) == IF 5 * idle > total THEN -20 ELSE 0

IdlePenaltyFromThreshold(idle, total) == IF 10 * idle >= 2 * total THEN -10 ELSE 0

\* lines 164-166: idle_time / total_time > 0.2
IdlePenalty(idle, total) == IF 10 * idle > 2 * total THEN -10 ELSE 0

InactivityScoreOfRatio(st, inactive) ==
    LET total == st["CODING"] + st["RESEARCHING"] + st["IDLE"]
    IN  IF total = 0 THEN 0
        ELSE IF 2 * total <= 10 * inactive /\ 10 * inactive <= 4 * total THEN 5
        ELSE IF 10 * inactive < total THEN -3
        ELSE IF 10 * inactive > 6 * total THEN -10
        ELSE 0

\* _calculate_inactivity_score, inactive_ratio = inactive / total
CalculateInactivityScore(st, inactive) ==
    LET total == st["CODING"] + st["RESEARCHING"] + st["IDLE"]
    IN  IF inactive = 0 THEN 0
        ELSE IF total = 0 THEN 0
        ELSE IF 2 * total <= 10 * inactive /\ 10 * inactive <= 4 * total THEN 5
        ELSE IF 10 * inactive < total THEN -3
        ELSE IF 10 * inactive > 6 * total THEN -10
        ELSE 0

Unclamped(x) == x

\* line 172: max(0, min(100, final_score))
Clamp(x) == IF x < 0 THEN 0 ELSE IF x > 100 THEN 100 ELSE x

ScoreOfImbalancedSession == BalanceScore(0, 0)

\* line 133: the score of an accumulator whose total time is 0
ScoreOfEmptySession == 0

\* calculate_hard_score of src/sensor.py; the sum of line 171 is
\* (50 * productive + (balance + penalty + adjustment) * total) / total
CalculateHardScoreRole(st, inactive) ==
    LET total == st["CODING"] + st["RESEARCHING"] + st["IDLE"]
        productive == st["CODING"] + st["RESEARCHING"]
        staged == BalanceScore(st["CODING"], productive)
                    + IdlePenalty(st["IDLE"], total)
                    + CalculateInactivityScore(st, inactive)
    IN  IF total = 0 THEN ScoreOfEmptySession
        ELSE Clamp(TruncDiv(50 * productive + staged * total, total))

\* main_role line 73: int(sum(soft_scores) / len(soft_scores)), each entry
\* being (coherence + terminology + completeness) / 3
RECURSIVE SumOf(_)
SumOf(s) == IF s = << >> THEN 0 ELSE Head(s) + SumOf(Tail(s))

FinalSoftScore(sums) ==
    IF sums = << >> THEN 0 ELSE TruncDiv(SumOf(sums), 3 * Len(sums))

RoleLoopLabels == {"role_loop", "role_body", "role_accumulate"}

RoleLoopIgnoresFlag == TRUE

\* line 93: `while self.running`
RoleLoopGoesOn == running["sampler"]

\* main_role: t = threading.Thread(target=monitor.run); t.start()
RoleStartSampler ==
    /\ ppc["main"] = "role_start"
    /\ ppc' = [ppc EXCEPT !["main"] = "speak", !["sampler"] = "role_run"]
    /\ UNCHANGED <<logVars, running, stopFile, gw, title, last_title, stats, ticks,
                   chunks, full_transcript, final_analysis, roleVars, unitVars>>

\* main_role lines 40-59: a pass of the loop that analyses and logs the next
\* mock transcript; an exception of log_clarity is not caught and ends main()
RoleSpeak ==
    /\ ppc["main"] = "speak"
    /\ transcript_index < MaxSpeech
    /\ \E a \in Analyses, ok \in FlushOutcomes :
          /\ CallLogger("main", [kind |-> "log_clarity", arg |-> a], ok)
          /\ soft_scores' = IF ok THEN Append(soft_scores,
                                   a.coherence + a.terminology + a.completeness)
                                  ELSE soft_scores
          /\ transcript_index' = IF ok THEN transcript_index + 1 ELSE transcript_index
          /\ ppc' = [ppc EXCEPT !["main"] = IF ok THEN "speak" ELSE "crashed"]
    /\ UNCHANGED <<running, stopFile, gw, title, last_title, stats, ticks,
                   chunks, full_transcript, final_analysis>>
    /\ UNCHANGED <<new_state, last_inactivity_state, inactive_typing_periods,
                   total_inactive_time, score, stop_in_loop, after_stop>>
    /\ UNCHANGED unitVars

\* main_role lines 40 and 61: the 15 s are over, or Ctrl+C ends the loop
RoleLoopEnd ==
    /\ ppc["main"] = "speak"
    /\ ppc' = [ppc EXCEPT !["main"] = "role_stop"]
    /\ UNCHANGED <<logVars, running, stopFile, gw, title, last_title, stats, ticks,
                   chunks, full_transcript, final_analysis, roleVars, unitVars>>

\* main_role line 65, monitor.stop() of src/sensor.py
RoleStop ==
    /\ ppc["main"] = "role_stop"
    /\ running' = [running EXCEPT !["sampler"] = FALSE]
    /\ stop_in_loop' = (ppc["sampler"] \in RoleLoopLabels)
    /\ ppc' = [ppc EXCEPT !["main"] = "role_join"]
    /\ UNCHANGED <<logVars, stopFile, gw, title, last_title, stats, ticks,
                   chunks, full_transcript, final_analysis>>
    /\ UNCHANGED <<new_state, last_inactivity_state, inactive_typing_periods,
                   total_inactive_time, score, after_stop, transcript_index,
                   soft_scores>>
    /\ UNCHANGED unitVars

\* main_role line 66: t.join() returns once run() has ended
RoleJoin ==
    /\ ppc["main"] = "role_join"
    /\ ppc["sampler"] \in {"exited", "dead"}
    /\ ppc' = [ppc EXCEPT !["main"] = "role_score"]
    /\ UNCHANGED <<logVars, running, stopFile, gw, title, last_title, stats, ticks,
                   chunks, full_transcript, final_analysis, roleVars, unitVars>>

\* main_role line 69: hard_score = monitor.calculate_hard_score()
RoleScore ==
    /\ ppc["main"] = "role_score"
    /\ score' = CalculateHardScoreRole(stats, total_inactive_time)
    /\ LET total_time == stats["CODING"] + stats["RESEARCHING"] + stats["IDLE"]
       IN  /\ balance_score' =
                 IF total_time = 0 THEN None
                 ELSE BalanceScore(stats["CODING"],
                                   stats["CODING"] + stats["RESEARCHING"])
           /\ inactivity_adjustment' =
                 IF total_time = 0 THEN None
                 ELSE CalculateInactivityScore(stats, total_inactive_time)
    /\ ppc' = [ppc EXCEPT !["main"] = "role_finish"]
    /\ UNCHANGED <<logVars, running, stopFile, gw, title, last_title, stats, ticks,
                   chunks, full_transcript, final_analysis>>
    /\ UNCHANGED <<new_state, last_inactivity_state, inactive_typing_periods,
                   total_inactive_time, stop_in_loop, after_stop, transcript_index,
                   soft_scores, analyzerVars, keyboardVars, leaderboardVars>>

\* main_role lines 73-82: the soft score, the verdict and finish_session
RoleFinish ==
    /\ ppc["main"] = "role_finish"
    /\ \E ok \in FlushOutcomes :
          /\ CallLogger("main",
                [kind |-> "finish_session",
                 arg |-> [hard_score |-> score,
                          soft_score |-> FinalSoftScore(soft_scores),
                          verdict |-> VerdictRole(score, FinalSoftScore(soft_scores))]],
                ok)
          /\ ppc' = [ppc EXCEPT !["main"] = IF ok THEN "done" ELSE "crashed"]
    /\ UNCHANGED <<running, stopFile, gw, title, last_title, stats, ticks,
                   chunks, full_transcript, final_analysis, roleVars, unitVars>>

\* run of src/sensor.py, lines 82-85
RoleRunStart ==
    /\ Alive
    /\ ppc["sampler"] = "role_run"
    /\ running' = [running EXCEPT !["sampler"] = TRUE]
    /\ last_title' = << >>
    /\ last_inactivity_state' = FALSE
    /\ ppc' = [ppc EXCEPT !["sampler"] = "role_loop"]
    /\ UNCHANGED <<logVars, stopFile, gw, title, stats, ticks, chunks,
                   full_transcript, final_analysis>>
    /\ UNCHANGED <<new_state, inactive_typing_periods, total_inactive_time, score,
                   stop_in_loop, after_stop, transcript_index, soft_scores>>
    /\ UNCHANGED unitVars

\* line 93: the next iteration starts or run returns
RoleLoopTest ==
    /\ Alive
    /\ ppc["sampler"] = "role_loop"
    /\ RoleLoopGoesOn => ticks < MaxRoleTicks
    /\ ticks' = IF RoleLoopGoesOn THEN ticks + 1 ELSE ticks
    /\ after_stop' = IF RoleLoopGoesOn /\ stop_in_loop
                       THEN [after_stop EXCEPT !.iterations = @ + 1]
                       ELSE after_stop
    /\ ppc' = [ppc EXCEPT !["sampler"] =
                 IF RoleLoopGoesOn THEN "role_body" ELSE "exited"]
    /\ UNCHANGED <<logVars, running, stopFile, gw, title, last_title, stats,
                   chunks, full_transcript, final_analysis>>
    /\ UNCHANGED <<new_state, last_inactivity_state, inactive_typing_periods,
                   total_inactive_time, score, stop_in_loop, transcript_index,
                   soft_scores>>
    /\ UNCHANGED unitVars

InactivePeriodsCountingTicks(is_inactive) ==
    IF is_inactive THEN inactive_typing_periods + 1 ELSE inactive_typing_periods

\* lines 101-104: `if is_inactive and not last_inactivity_state`
InactivePeriodsAfter(is_inactive) ==
    IF is_inactive /\ ~last_inactivity_state
      THEN inactive_typing_periods + 1 ELSE inactive_typing_periods

\* lines 94-118: the title is read and classified, the keyboard inactivity
\* (is_inactive, more than 7 s since the last key press) is accounted, and a
\* changed title is logged; an exception of log_state leaves run() and ends
\* the thread
RoleBody ==
    /\ Alive
    /\ ppc["sampler"] = "role_body"
    /\ \E w \in ActiveWindowTitles, is_inactive \in BOOLEAN :
          /\ title' = w
          /\ new_state' = ClassifyState(w)
          /\ inactive_typing_periods' = InactivePeriodsAfter(is_inactive)
          /\ total_inactive_time' =
                IF is_inactive THEN total_inactive_time + Interval
                               ELSE total_inactive_time
          /\ last_inactivity_state' = is_inactive
          /\ IF w # last_title
               THEN \E ok \in FlushOutcomes :
                       /\ CallLogger("sampler",
                                     [kind |-> "log_state", arg |-> new_state'], ok)
                       /\ last_title' = IF ok THEN w ELSE last_title
                       /\ after_stop' = IF stop_in_loop
                                          THEN [after_stop EXCEPT !.appends = @ + 1]
                                          ELSE after_stop
                       /\ ppc' = [ppc EXCEPT !["sampler"] =
                                    IF ok THEN "role_accumulate" ELSE "dead"]
               ELSE /\ ppc' = [ppc EXCEPT !["sampler"] = "role_accumulate"]
                    /\ UNCHANGED <<logVars, last_title, after_stop>>
    /\ UNCHANGED <<running, stopFile, gw, stats, ticks, chunks,
                   full_transcript, final_analysis>>
    /\ UNCHANGED <<score, stop_in_loop, transcript_index, soft_scores>>
    /\ UNCHANGED unitVars

StatsAfterTickOfIdle == [stats EXCEPT !["IDLE"] = @ + Interval]

\* line 120: self.stats[new_state] += interval
StatsAfterTick == [stats EXCEPT ![new_state] = @ + Interval]

\* lines 120-122: self.stats[new_state] += interval; time.sleep(interval)
RoleAccumulate ==
    /\ Alive
    /\ ppc["sampler"] = "role_accumulate"
    /\ stats' = StatsAfterTick
    /\ after_stop' = IF stop_in_loop THEN [after_stop EXCEPT !.updates = @ + 1]
                                     ELSE after_stop
    /\ ppc' = [ppc EXCEPT !["sampler"] = "role_loop"]
    /\ UNCHANGED <<logVars, running, stopFile, gw, title, last_title, ticks, chunks,
                   full_transcript, final_analysis>>
    /\ UNCHANGED <<new_state, last_inactivity_state, inactive_typing_periods,
                   total_inactive_time, score, stop_in_loop, transcript_index,
                   soft_scores>>
    /\ UNCHANGED unitVars

\* main_role.py lines 11-17: the objects exist, no thread has been started
InitRole ==
    /\ InitLog
    /\ InitObjects
    /\ ppc = [t \in Threads |-> IF t = "main" THEN "role_start" ELSE "created"]
    /\ gw \in BOOLEAN

RoleMainNext ==
    \/ RoleStartSampler
    \/ RoleSpeak
    \/ RoleLoopEnd
    \/ RoleStop
    \/ RoleJoin
    \/ RoleScore
    \/ RoleFinish

RoleSamplerNext ==
    \/ RoleRunStart
    \/ RoleLoopTest
    \/ RoleBody
    \/ RoleAccumulate

NextRole == RoleMainNext \/ RoleSamplerNext

\* src/main_role.py with the sampler thread of src/sensor.py
SpecRole == InitRole /\ [][NextRole]_vars

\* the same, with the sampler thread scheduled whenever it can take a step
SpecRoleFair == SpecRole /\ WF_vars(RoleSamplerNext)

\* ------------------------------------------------------------- properties
IsPrefix(a, b) == Len(a) <= Len(b) /\ SubSeq(b, 1, Len(a)) = a

Quiescent == \A t \in Threads : ~InCS(t)

Persisted == JsonLoad(file)

\* C1: in every reachable state the ts values of events are non-decreasing
\* in list order, whatever the interleaving of the producers' append calls.
C1_TsNonDecreasing ==
    \A i \in 1..(Len(data.events) - 1) : data.events[i].ts <= data.events[i + 1].ts

\* the sampler issued its call first, the listener took the lock first, and
\* the two events carry different timestamps
C1_Witness ==
    /\ Len(data.events) = 2
    /\ Len(issued) = 2
    /\ issued[1].thread = "sampler"
    /\ data.events[1].type = "CLARITY"
    /\ data.events[2].type = "STATE"
    /\ data.events[1].ts < data.events[2].ts

\* C2: at most one thread is inside a `with self.lock` block of the logger
\* (modifying the record or writing the file) at any time.
C2_MutualExclusion == Cardinality({t \in Threads : InCS(t)}) <= 1

\* one thread is writing the file while another waits for the lock
C2_Witness ==
    \E t, u \in Threads : t # u /\ pc[t] = "write" /\ pc[u] = "lock"

\* C3: whenever the dashboard loads the persisted file, json.load yields a
\* complete record (never an empty or partially written document).
C3_ReaderNeverTorn == snapshot.read => snapshot.ok

\* C4: events changes only by an append call adding its one event at the
\* end; every append call does so; no step removes, reorders or changes an
\* element already in the list.
C4_AppendOnly ==
    [][ /\ IsPrefix(data.events, data.events')
        /\ data.events' # data.events =>
             \E t \in Threads :
                /\ pc[t] = "append"
                /\ pc'[t] = "open"
                /\ data.events' =
                     Append(data.events,
                            Event(ts[t], EventType(op[t]), EventPayload(op[t])))
        /\ \A t \in Threads :
              (pc[t] = "append" /\ pc'[t] # "append") =>
                 Len(data.events') = Len(data.events) + 1 ]_vars

\* finish_session has run to its end on a record that holds an event
C4_Witness ==
    /\ Len(data.events) = 1
    /\ data.ended_at # None
    /\ lastRet = "ok"
    /\ Quiescent

\* C6: when no logger call is in progress and no call has failed, loading
\* the persisted file gives a record equal to the in-memory record.
C6_RoundTrip ==
    (Quiescent /\ ~failed) => Persisted = [ok |-> TRUE, rec |-> data]

\* an append and a finish_session have both returned
C6_Witness ==
    /\ Quiescent
    /\ ~failed
    /\ calls = 2
    /\ Len(data.events) = 1
    /\ data.ended_at # None
    /\ \A t \in Threads : pc[t] = "idle"

\* C7: verdict is PENDING as long as no finish_session has stored ended_at;
\* once finish_session has stored the summary it is PASS or FAIL, and a
\* verdict that is not PENDING never becomes PENDING again.
C7_Verdict ==
    /\ [](data.ended_at = None => data.summary.verdict = "PENDING")
    /\ []((data.ended_at # None /\ \A t \in Threads : pc[t] # "summary") =>
             data.summary.verdict \in {"PASS", "FAIL"})
    /\ [][data.summary.verdict # "PENDING" => data.summary.verdict' # "PENDING"]_vars

\* finish_session has returned with verdict PASS
C7_Witness ==
    /\ Quiescent
    /\ lastRet = "ok"
    /\ data.ended_at # None
    /\ data.summary.verdict = "PASS"

\* C8 as stated: once ended_at is non-null no later step changes it.
C8_EndedAtAssignedOnce ==
    [][data.ended_at # None => data.ended_at' = data.ended_at]_vars

\* C8 amended: ended_at never returns to null, and only the assignment in
\* finish_session changes it.
C8_EndedAtOnlyByFinish ==
    [][ /\ data.ended_at # None => data.ended_at' # None
        /\ data.ended_at' # data.ended_at =>
             \E t \in Threads :
                pc[t] = "ended_at" /\ op[t].kind = "finish_session" ]_vars

\* update_candidate_id has run after finish_session
C8_Witness ==
    /\ data.ended_at # None
    /\ data.candidate_id = "alice"
    /\ Quiescent

\* C9: the i-th event is the event of the i-th append call that took the
\* lock, and the events of a loadable persisted file are in that same order.
C9_LockOrder ==
    /\ Len(acquired) - Len(data.events) \in {0, 1}
    /\ \A i \in 1..Len(data.events) :
          /\ i <= Len(acquired)
          /\ data.events[i].type = acquired[i].type
          /\ data.events[i].payload = acquired[i].payload
    /\ Persisted.ok => IsPrefix(Persisted.rec.events, data.events)

\* the call issued second took the lock first, and both events are persisted
C9_Witness ==
    /\ Len(data.events) = 2
    /\ Len(issued) = 2
    /\ issued[1].thread # acquired[1].thread
    /\ Persisted.ok
    /\ Len(Persisted.rec.events) = 2

\* C10: a step in which _flush raises leaves the error with the caller and
\* the lock released; a call that returns normally after a failure leaves
\* the persisted record equal to the in-memory record.
C10_FailureRecovery ==
    [][ /\ \A t \in Threads :
              (pc[t] \in {"open", "write"} /\ pc'[t] = "idle") =>
                 (ret'[t] = "error" /\ ~locked')
        /\ \A t \in Threads :
              (failed /\ pc[t] = "close" /\ pc'[t] = "idle") =>
                 (ret'[t] = "ok" /\ Persisted' = [ok |-> TRUE, rec |-> data']) ]_vars

\* the first append failed in _flush, the second call returned normally and
\* the file holds both events
C10_Witness ==
    /\ failed
    /\ lastRet = "ok"
    /\ Quiescent
    /\ Len(data.events) = 2
    /\ Persisted.ok
    /\ Persisted.rec.events = data.events

\* C5: once finish_session has stored ended_at, no step of the program adds
\* an event to the record.
C5_NoAppendAfterFinish ==
    [][data.ended_at # None => data.events' = data.events]_vars

\* ------------------------------------------- calculate_hard_score alone
\* accumulated durations and inactive times, s
Durations == {0, 10, 20, 30, 40, 60}
InactiveTimes == {0, 1, 10, 20, 30, 40, 60, 100}

TotalTime == stats["CODING"] + stats["RESEARCHING"] + stats["IDLE"]

\* main_role.py has joined the sampler and is about to compute the hard
\* score (line 69); the inactive time exceeds the accumulated durations by
\* at most the interval of a tick that ended before its duration update
InitScore ==
    /\ InitLog
    /\ \E st \in [States -> Durations], inactive \in InactiveTimes :
          /\ inactive <= st["CODING"] + st["RESEARCHING"] + st["IDLE"] + Interval
          /\ InitObjectsWith(st, inactive,
                             (st["CODING"] + st["RESEARCHING"] + st["IDLE"]) \div Interval,
                             << >>)
    /\ ppc = [t \in Threads |-> CASE t = "main" -> "role_score"
                                  [] t = "sampler" -> "exited"
                                  [] OTHER -> "created"]
    /\ gw = TRUE

NextScore == RoleScore

SpecScore == InitScore /\ [][NextScore]_vars

\* ---------------------------------------------- _classify_state alone
MaxFragments == 2    \* fragments a generated title is made of

\* pieces of window titles, as the window system reports them and in
\* lower case
Fragments ==
    <<[text |-> <<"v", "s", "c", "o", "d", "e">>,
       lower |-> <<"v", "s", "c", "o", "d", "e">>],
      [text |-> <<"c", "h", "r", "o", "m", "e">>,
       lower |-> <<"c", "h", "r", "o", "m", "e">>],
      [text |-> <<" ", "a", "n", "d", " ">>,
       lower |-> <<" ", "a", "n", "d", " ">>],
      [text |-> <<"V", "I", "M">>,
       lower |-> <<"v", "i", "m">>],
      [text |-> <<"E", "d", "g", "e">>,
       lower |-> <<"e", "d", "g", "e">>],
      [text |-> <<"n", "o", "t", "e", "s">>,
       lower |-> <<"n", "o", "t", "e", "s">>],
      [text |-> <<".", "P", "Y">>,
       lower |-> <<".", "p", "y">>],
      [text |-> <<"G", "P", "T">>,
       lower |-> <<"g", "p", "t">>]>>

FragmentSeqs == UNION {[1..n -> 1..Len(Fragments)] : n \in 0..MaxFragments}

RECURSIVE TitleOf(_)
TitleOf(fs) ==
    IF fs = << >> THEN << >> ELSE Fragments[Head(fs)].text \o TitleOf(Tail(fs))

RECURSIVE LowerTitleOf(_)
LowerTitleOf(fs) ==
    IF fs = << >> THEN << >> ELSE Fragments[Head(fs)].lower \o LowerTitleOf(Tail(fs))

ExampleTitle == <<"u", "s", "i", "n", "g", " ", "v", "s", "c", "o", "d", "e", " ", "a", "n", "d", " ", "c", "h", "r", "o", "m", "e">>

\* the titles _classify_state is called with
ClassifyTitles == {TitleOf(fs) : fs \in FragmentSeqs} \cup {ExampleTitle}

\* a caller is about to apply _classify_state of the constructed monitor to
\* a title
InitClassify ==
    /\ InitLog
    /\ \E w \in ClassifyTitles : InitObjectsWith([s \in States |-> 0], 0, 0, w)
    /\ ppc = [t \in Threads |-> IF t = "main" THEN "classify" ELSE "created"]
    /\ gw = TRUE

\* new_state = self._classify_state(title)
Classify ==
    /\ ppc["main"] = "classify"
    /\ new_state' = ClassifyState(title)
    /\ ppc' = [ppc EXCEPT !["main"] = "classified"]
    /\ UNCHANGED <<logVars, running, stopFile, gw, title, last_title, stats, ticks,
                   chunks, full_transcript, final_analysis>>
    /\ UNCHANGED <<last_inactivity_state, inactive_typing_periods,
                   total_inactive_time, score, transcript_index, soft_scores,
                   stop_in_loop, after_stop>>
    /\ UNCHANGED unitVars

NextClassify == Classify

SpecClassify == InitClassify /\ [][NextClassify]_vars

\* ------------------------- cognitive_engine/clarity_analyzer.py: analyze
MaxPad == 1     \* whitespace characters before and after a transcript's text
MaxBody == 10   \* characters of a transcript's text

MAX_RETRIES == 3

\* a transcript: lead blanks, body letters, trail line ends
TranscriptOf(lead, body, trail) ==
    [i \in 1..lead |-> " "] \o [i \in 1..body |-> "a"] \o [i \in 1..trail |-> "\n"]

AnalyzerTranscripts ==
    {TranscriptOf(l, b, t) : l \in 0..MaxPad, b \in 0..MaxBody, t \in 0..MaxPad}

\* the whitespace characters that occur
Whitespace == {" ", "\t", "\n"}

\* str.strip()
RECURSIVE LStrip(_)
LStrip(s) == IF s # << >> /\ Head(s) \in Whitespace THEN LStrip(Tail(s)) ELSE s

RECURSIVE RStrip(_)
RStrip(s) ==
    IF s # << >> /\ s[Len(s)] \in Whitespace THEN RStrip(SubSeq(s, 1, Len(s) - 1)) ELSE s

Strip(s) == RStrip(LStrip(s))

\* the values a JSON document of the backend can hold under a key, and the
\* values of the returned mapping: kind, number (tenths for a float), text
Value(kind, num, text) == [kind |-> kind, num |-> num, text |-> text]

\* an integer
IntValue(n) == Value("int", n, << >>)

\* a string
StrValue(t) == Value("str", 0, t)

\* the key is absent
Missing == Value("missing", 0, << >>)

Digits == <<"0", "1", "2", "3", "4", "5", "6", "7", "8", "9">>

\* the digit a character stands for, -1 for another character
DigitOf(c) == IF \E d \in 1..10 : Digits[d] = c
                THEN (CHOOSE d \in 1..10 : Digits[d] = c) - 1 ELSE -1

\* the decimal numeral of a natural number
RECURSIVE NumeralOf(_)
NumeralOf(n) ==
    IF n < 10 THEN <<Digits[n + 1]>> ELSE NumeralOf(n \div 10) \o <<Digits[(n % 10) + 1]>>

\* the number of a non-empty sequence of digits
RECURSIVE NumberOf(_)
NumberOf(t) ==
    IF Len(t) = 1 THEN DigitOf(t[1])
    ELSE 10 * NumberOf(SubSeq(t, 1, Len(t) - 1)) + DigitOf(t[Len(t)])

\* int(x) of Python: the integer, or the exception it raises
IntOf(x) ==
    CASE x.kind = "int" -> [exc |-> "none", num |-> x.num]
      [] x.kind = "bool" -> [exc |-> "none", num |-> x.num]
      [] x.kind = "float" -> [exc |-> "none", num |-> TruncDiv(x.num, 10)]
      [] x.kind = "str" ->
            IF x.text # << >> /\ \A i \in 1..Len(x.text) : DigitOf(x.text[i]) >= 0
              THEN [exc |-> "none", num |-> NumberOf(x.text)]
              ELSE [exc |-> "ValueError", num |-> 0]
      [] x.kind = "nan" -> [exc |-> "ValueError", num |-> 0]
      [] x.kind = "inf" -> [exc |-> "OverflowError", num |-> 0]
      [] OTHER -> [exc |-> "TypeError", num |-> 0]

\* str(x) of Python
StrOf(x) ==
    CASE x.kind = "str" -> x.text
      [] x.kind = "int" ->
            IF x.num < 0 THEN <<"-">> \o NumeralOf(-x.num) ELSE NumeralOf(x.num)
      [] x.kind = "float" ->
            (IF x.num < 0 THEN <<"-">> ELSE << >>)
              \o NumeralOf((IF x.num < 0 THEN -x.num ELSE x.num) \div 10)
              \o <<".">> \o NumeralOf((IF x.num < 0 THEN -x.num ELSE x.num) % 10)
      [] x.kind = "bool" ->
            IF x.num = 1 THEN <<"T", "r", "u", "e">> ELSE <<"F", "a", "l", "s", "e">>
      [] x.kind = "null" -> <<"N", "o", "n", "e">>
      [] x.kind = "inf" -> <<"i", "n", "f">>
      [] x.kind = "nan" -> <<"n", "a", "n">>
      [] OTHER -> <<"[", "]">>

\* text[:500]
Slice500(t) == SubSeq(t, 1, IF Len(t) < 500 THEN Len(t) ELSE 500)

ErrorPrefix == <<"E", "r", "r", "o", "r", ":", " ">>

\* the messages handed to _error_response, without what an exception adds
ErrorMsg(code) ==
    CASE code = "too_short" ->
            <<"T", "r", "a", "n", "s", "c", "r", "i", "p", "t", " ", "t", "o", "o",
              " ", "s", "h", "o", "r", "t">>
      [] code = "structure" ->
            <<"I", "n", "v", "a", "l", "i", "d", " ", "A", "P", "I", " ", "r", "e",
              "s", "p", "o", "n", "s", "e", " ", "s", "t", "r", "u", "c", "t", "u",
              "r", "e">>
      [] code = "json" ->
            <<"I", "n", "v", "a", "l", "i", "d", " ", "J", "S", "O", "N", " ", "i",
              "n", " ", "r", "e", "s", "p", "o", "n", "s", "e", ":", " ">>
      [] code = "timeout" ->
            <<"A", "P", "I", " ", "t", "i", "m", "e", "o", "u", "t", " ", "a", "f",
              "t", "e", "r", " ", "r", "e", "t", "r", "i", "e", "s">>
      [] code = "connection" ->
            <<"C", "o", "n", "n", "e", "c", "t", "i", "o", "n", " ", "e", "r", "r",
              "o", "r", ":", " ">>
      [] code = "api_key" ->
            <<"I", "n", "v", "a", "l", "i", "d", " ", "A", "P", "I", " ", "k", "e",
              "y">>
      [] code = "rate_limit" ->
            <<"A", "P", "I", " ", "r", "a", "t", "e", " ", "l", "i", "m", "i", "t",
              " ", "e", "x", "c", "e", "e", "d", "e", "d">>
      [] code = "http" ->
            <<"H", "T", "T", "P", " ", "e", "r", "r", "o", "r", ":", " ">>
      [] code = "unexpected" ->
            <<"U", "n", "e", "x", "p", "e", "c", "t", "e", "d", " ", "e", "r", "r",
              "o", "r", ":", " ">>
      [] code = "missing_field" ->
            <<"M", "i", "s", "s", "i", "n", "g", " ", "f", "i", "e", "l", "d", ":",
              " ">>
      [] OTHER ->
            <<"I", "n", "v", "a", "l", "i", "d", " ", "s", "c", "o", "r", "e", " ",
              "f", "o", "r", "m", "a", "t", ":", " ">>

\* _error_response, lines 228-243
ErrorResponse(error_msg) ==
    [coherence |-> IntValue(0), terminology |-> IntValue(0),
     completeness |-> IntValue(0), comment |-> StrValue(ErrorPrefix \o error_msg)]

Returned(r) == [status |-> "returned", exc |-> "none", value |-> r]

Raised(e) == [status |-> "raised", exc |-> e, value |-> ErrorResponse(<< >>)]

\* ---- src/src/cognitive/fake_llm.py
\* the ends of random.randint(50, 95), (50, 90) and (45, 85)
FakeScores ==
    [coherence |-> {50, 95}, terminology |-> {50, 90}, completeness |-> {45, 85}]

\* the first and the last of the five comments of lines 50-56
FakeComments ==
    {<<"G", "o", "o", "d", " ", "l", "o", "g", "i", "c", "a", "l", " ", "f", "l",
       "o", "w", ",", " ", "c", "o", "u", "l", "d", " ", "a", "d", "d", " ", "m",
       "o", "r", "e", " ", "e", "d", "g", "e", " ", "c", "a", "s", "e", "s", ".">>,
     <<"W", "e", "l", "l", "-", "o", "r", "g", "a", "n", "i", "z", "e", "d", ",",
       " ", "a", "d", "d", "r", "e", "s", "s", " ", "c", "o", "n", "s", "t", "r",
       "a", "i", "n", "t", "s", " ", "m", "o", "r", "e", " ", "e", "x", "p", "l",
       "i", "c", "i", "t", "l", "y", ".">>}

\* FakeLLM.analyze, lines 26-65: the mappings it can return
FakeLLMAnalyze(tr) ==
    IF tr = << >> \/ Len(Strip(tr)) < 10
      THEN {[coherence |-> IntValue(0), terminology |-> IntValue(0),
             completeness |-> IntValue(0),
             comment |->
               StrValue(<<"E", "r", "r", "o", "r", ":", " ", "T", "r", "a", "n",
                           "s", "c", "r", "i", "p", "t", " ", "t", "o", "o", " ",
                           "s", "h", "o", "r", "t">>)]}
      ELSE {[coherence |-> IntValue(a), terminology |-> IntValue(b),
             completeness |-> IntValue(c), comment |-> StrValue(d)] :
              a \in FakeScores.coherence, b \in FakeScores.terminology,
              c \in FakeScores.completeness, d \in FakeComments}

\* ---- the documents json.loads can give for the content of the API's reply
DictDoc(a, b, c, d) ==
    [type |-> "dict", coherence |-> a, terminology |-> b, completeness |-> c,
     comment |-> d]

\* a document that is no mapping: a number, null, a list or a string, the
\* last two with or without the four field names among their items
OtherDoc(t) ==
    [type |-> t, coherence |-> Missing, terminology |-> Missing,
     completeness |-> Missing, comment |-> Missing]

\* the scores a reply can hold under the key coherence
ScoreValues ==
    {IntValue(85), IntValue(150), IntValue(-5), Value("float", 857, << >>),
     Value("float", -3, << >>), StrValue(<<"8", "5">>), StrValue(<<"8", ".", "5">>),
     StrValue(<< >>), Value("bool", 1, << >>), Value("null", 0, << >>),
     Value("inf", 0, << >>), Value("nan", 0, << >>), Value("list", 0, << >>)}

Docs ==
    {DictDoc(a, b, c, d) :
        a \in ScoreValues \cup {Missing},
        b \in {IntValue(90), Value("inf", 0, << >>), Missing},
        c \in {IntValue(60), StrValue(<<"x">>)},
        d \in {StrValue(<<"o", "k">>), IntValue(7), Value("null", 0, << >>), Missing}}
    \cup {OtherDoc(t) : t \in {"num", "null", "list", "str", "list_of_names",
                               "str_with_names"}}

RequiredFields == <<"coherence", "terminology", "completeness", "comment">>

FieldText(f) ==
    CASE f = "coherence" -> <<"c", "o", "h", "e", "r", "e", "n", "c", "e">>
      [] f = "terminology" -> <<"t", "e", "r", "m", "i", "n", "o", "l", "o", "g", "y">>
      [] f = "completeness" -> <<"c", "o", "m", "p", "l", "e", "t", "e", "n", "e", "s", "s">>
      [] OTHER -> <<"c", "o", "m", "m", "e", "n", "t">>

\* `field not in data` for the document data
NotIn(f, doc) ==
    CASE doc.type = "dict" -> doc[f] = Missing
      [] doc.type \in {"list_of_names", "str_with_names"} -> FALSE
      [] OTHER -> TRUE

\* max(0, min(100, x))
Normalized(x) == IF x < 0 THEN 0 ELSE IF x > 100 THEN 100 ELSE x

\* _validate_response, lines 194-226: what it returns, or the exception that
\* leaves it
ValidateResponse(doc) ==
    IF doc.type \in {"num", "null"} THEN Raised("TypeError")
    ELSE IF \E i \in 1..4 : NotIn(RequiredFields[i], doc)
      THEN LET i == CHOOSE j \in 1..4 :
                       /\ NotIn(RequiredFields[j], doc)
                       /\ \A k \in 1..(j - 1) : ~NotIn(RequiredFields[k], doc)
           IN  Returned(ErrorResponse(ErrorMsg("missing_field")
                                        \o FieldText(RequiredFields[i])))
    ELSE IF doc.type # "dict"
      THEN Returned(ErrorResponse(ErrorMsg("score_format")))
    ELSE LET a == IntOf(doc.coherence)
             b == IntOf(doc.terminology)
             c == IntOf(doc.completeness)
             first == IF a.exc # "none" THEN a.exc
                      ELSE IF b.exc # "none" THEN b.exc ELSE c.exc
         IN  IF first \in {"ValueError", "TypeError"}
               THEN Returned(ErrorResponse(ErrorMsg("score_format")))
             ELSE IF first # "none" THEN Raised(first)
             ELSE Returned([coherence |-> IntValue(Normalized(a.num)),
                            terminology |-> IntValue(Normalized(b.num)),
                            completeness |-> IntValue(Normalized(c.num)),
                            comment |-> StrValue(Slice500(StrOf(doc.comment)))])

\* what the request of lines 99-118 and the reply's content can be
ApiOutcomes ==
    {[kind |-> k, doc |-> OtherDoc("null")] :
        k \in {"timeout", "connection_error", "http_401", "http_429", "http_other",
               "no_choices", "no_content", "garbage"}}
    \cup {[kind |-> k, doc |-> d] : k \in {"json", "wrapped"}, d \in Docs}

UnexpectedPropagates(r) == r

\* lines 162-165, `except Exception`: the exception becomes an error response
CaughtUnexpected(r) ==
    IF r.status = "raised" THEN Returned(ErrorResponse(ErrorMsg("unexpected"))) ELSE r

\* the body of the try block of _analyze_with_openai for the reply o, from
\* raise_for_status on, and the handlers of lines 140-165 but the timeout's
OpenAIResult(o) ==
    CASE o.kind = "connection_error" -> Returned(ErrorResponse(ErrorMsg("connection")))
      [] o.kind = "http_401" -> Returned(ErrorResponse(ErrorMsg("api_key")))
      [] o.kind = "http_429" -> Returned(ErrorResponse(ErrorMsg("rate_limit")))
      [] o.kind = "http_other" -> Returned(ErrorResponse(ErrorMsg("http")))
      [] o.kind = "no_choices" -> Returned(ErrorResponse(ErrorMsg("structure")))
      [] o.kind = "no_content" -> CaughtUnexpected(Raised("TypeError"))
      [] o.kind = "garbage" -> Returned(ErrorResponse(ErrorMsg("json")))
      [] OTHER -> CaughtUnexpected(ValidateResponse(o.doc))

TooShortUnstripped(tr) == Len(tr) < 5

\* line 75: `not transcript or len(transcript.strip()) < 5`
TooShort(tr) == tr = << >> \/ Len(Strip(tr)) < 5

\* analyze, lines 75-82
AnalyzeCall ==
    /\ ppc["main"] = "analyze"
    /\ IF TooShort(transcript)
         THEN /\ result' = Returned(ErrorResponse(ErrorMsg("too_short")))
              /\ ppc' = [ppc EXCEPT !["main"] = "analyzed"]
              /\ UNCHANGED llm_invoked
         ELSE IF mode = "fake"
           THEN /\ \E r \in FakeLLMAnalyze(transcript) : result' = Returned(r)
                /\ llm_invoked' = TRUE
                /\ ppc' = [ppc EXCEPT !["main"] = "analyzed"]
           ELSE /\ ppc' = [ppc EXCEPT !["main"] = "openai"]
                /\ UNCHANGED <<result, llm_invoked>>
    /\ UNCHANGED <<logVars, running, stopFile, gw, title, last_title, stats, ticks,
                   chunks, full_transcript, final_analysis, roleVars>>
    /\ UNCHANGED <<transcript, mode, retry_count, attempts, keyboardVars,
                   balance_score, inactivity_adjustment, leaderboardVars>>

RetryAllowedOnceMore == retry_count <= MAX_RETRIES

\* line 141: `if retry_count < MAX_RETRIES`
RetryAllowed == retry_count < MAX_RETRIES

\* _analyze_with_openai, lines 84-165: one request; a timeout is retried
\* while retry_count < MAX_RETRIES
OpenAIAttempt ==
    /\ ppc["main"] = "openai"
    /\ llm_invoked' = TRUE
    /\ \E o \in ApiOutcomes :
          /\ attempts' = Append(attempts, o.kind)
          /\ IF o.kind = "timeout"
               THEN IF RetryAllowed
                      THEN /\ retry_count' = retry_count + 1
                           /\ UNCHANGED <<result, ppc>>
                      ELSE /\ result' = Returned(ErrorResponse(ErrorMsg("timeout")))
                           /\ ppc' = [ppc EXCEPT !["main"] = "analyzed"]
                           /\ UNCHANGED retry_count
               ELSE /\ result' = OpenAIResult(o)
                    /\ ppc' = [ppc EXCEPT !["main"] = "analyzed"]
                    /\ UNCHANGED retry_count
    /\ UNCHANGED <<logVars, running, stopFile, gw, title, last_title, stats, ticks,
                   chunks, full_transcript, final_analysis, roleVars>>
    /\ UNCHANGED <<transcript, mode, keyboardVars, balance_score,
                   inactivity_adjustment, leaderboardVars>>

\* an analyzer of either mode is about to analyse a transcript
InitAnalyze ==
    /\ InitLog
    /\ InitMonitorWith([s \in States |-> 0], 0, 0, << >>)
    /\ \E m \in {"fake", "real"}, tr \in AnalyzerTranscripts : InitAnalyzer(m, tr)
    /\ ppc = [t \in Threads |-> IF t = "main" THEN "analyze" ELSE "created"]
    /\ gw = TRUE

NextAnalyze == AnalyzeCall \/ OpenAIAttempt

SpecAnalyze == InitAnalyze /\ [][NextAnalyze]_vars

\* analyze goes on: a request ends within TIMEOUT_SECONDS and the pause
\* before a retry is time.sleep(2 ** retry_count)
SpecAnalyzeFair == SpecAnalyze /\ WF_vars(NextAnalyze)

\* ------------------------------------------------------------- properties 2
\* C11: a tick of the sampler loop in which log_state fails does not end the
\* loop: the step of the loop body whose log_state raised leaves the thread
\* in the loop, on its way to the duration update and the next tick.
C11_FailedTickKeepsLoop ==
    [][(ppc["sampler"] = "role_body" /\ ppc'["sampler"] # "role_body"
          /\ ~failed /\ failed')
         => ppc'["sampler"] = "role_accumulate"]_vars

SamplerEnded == ppc["sampler"] \in {"exited", "dead"}

\* C12: after a stop() that ran while the sampler loop was executing, the
\* loop starts no new iteration, updates a duration at most once more and
\* appends at most one more STATE event, and then run() ends.
C12_StopEndsLoop ==
    /\ [](/\ after_stop.iterations = 0
          /\ after_stop.appends <= 1
          /\ after_stop.updates <= 1)
    /\ (stop_in_loop ~> SamplerEnded)

C12_Witness ==
    /\ stop_in_loop
    /\ after_stop = [iterations |-> 0, appends |-> 1, updates |-> 1]
    /\ ppc["sampler"] = "exited"

\* C13: whenever stop() has been called after the sampler thread was
\* started, the sampler loop eventually exits.
C13_StopAnyTimeEndsLoop == (ppc["main"] = "role_join") ~> SamplerEnded

\* C14: calculate_hard_score returns an integer in [0, 100].
C14_ScoreInRange == score # None => score \in 0..100

C14_Witness ==
    /\ stats = [CODING |-> 30, RESEARCHING |-> 10, IDLE |-> 0]
    /\ total_inactive_time = 10
    /\ score = 100

\* C15: for a total duration greater than 0 the score is
\* trunc(50*productive/total + balance_score + idle_penalty +
\* inactivity_adjustment) clamped to [0, 100], idle_penalty being -10 exactly
\* when IDLE/total > 0.2; (60, 0, 0) without inactivity gives 90 and
\* (30, 10, 60) without inactivity gives 60.
C15_StagedFormula ==
    (score # None /\ TotalTime > 0) =>
        LET productive == stats["CODING"] + stats["RESEARCHING"]
            idle_penalty == IF 5 * stats["IDLE"] > TotalTime THEN -10 ELSE 0
            rest == BalanceScore(stats["CODING"], productive) + idle_penalty
                      + CalculateInactivityScore(stats, total_inactive_time)
            numerator == 50 * productive + rest * TotalTime
            final == IF numerator >= 0 THEN numerator \div TotalTime
                                       ELSE -((-numerator) \div TotalTime)
        IN  /\ score = IF final < 0 THEN 0 ELSE IF final > 100 THEN 100 ELSE final
            /\ (stats = [CODING |-> 60, RESEARCHING |-> 0, IDLE |-> 0]
                  /\ total_inactive_time = 0) => score = 90
            /\ (stats = [CODING |-> 30, RESEARCHING |-> 10, IDLE |-> 60]
                  /\ total_inactive_time = 0) => score = 60

C15_Witness ==
    /\ stats = [CODING |-> 30, RESEARCHING |-> 10, IDLE |-> 60]
    /\ total_inactive_time = 0
    /\ score = 60

\* C16: when all three durations are 0 the score is 0 whatever the
\* inactivity counters hold (a division by the zero total would stop the
\* evaluation instead).
C16_EmptySessionScoresZero == (score # None /\ TotalTime = 0) => score = 0

C16_Witness ==
    /\ TotalTime = 0
    /\ total_inactive_time > 0
    /\ score = 0

HasKeyword(low, keys) == \E k \in 1..Len(keys) : Contains(low, keys[k])

\* C17: _classify_state returns IDLE for the empty title and CODING for
\* every title that contains a CODING keyword, also when the title contains
\* RESEARCHING keywords as well.
C17_CodingPrecedence ==
    new_state # "none" =>
        /\ title = << >> => new_state = "IDLE"
        /\ HasKeyword(title, CodingKeywords) => new_state = "CODING"

C17_Witness ==
    /\ title = ExampleTitle
    /\ HasKeyword(title, ResearchingKeywords)
    /\ new_state = "CODING"

\* C18: _classify_state always returns CODING, RESEARCHING or IDLE and
\* ignores letter case: for a title whose lower-case spelling is low the
\* result is RESEARCHING exactly when low has a RESEARCHING keyword and no
\* CODING keyword, and IDLE exactly when low has no keyword of either list.
C18_TotalAndCaseBlind ==
    new_state # "none" =>
        /\ new_state \in States
        /\ \A fs \in FragmentSeqs :
              title = TitleOf(fs) =>
                 LET low == LowerTitleOf(fs)
                 IN  /\ new_state = "RESEARCHING" <=>
                           (HasKeyword(low, ResearchingKeywords)
                              /\ ~HasKeyword(low, CodingKeywords))
                     /\ new_state = "IDLE" <=>
                           (~HasKeyword(low, ResearchingKeywords)
                              /\ ~HasKeyword(low, CodingKeywords))

C18_Witness ==
    /\ title = <<"E", "d", "g", "e">>
    /\ new_state = "RESEARCHING"

\* C19: in every reachable state session_id and started_at hold the values
\* SessionLogger.__init__ gave them (the logger is created at time 0).
C19_IdentityImmutable ==
    /\ data.session_id = NewSessionData("hacker_007", 0).session_id
    /\ data.started_at = NewSessionData("hacker_007", 0).started_at

\* a rename has run after the clock has moved on and the session was finished
C19_Witness ==
    /\ now > data.started_at
    /\ data.ended_at > data.started_at
    /\ data.candidate_id = "alice"
    /\ file = JsonDump(data)

\* C20: update_candidate_id stores new_id in candidate_id while the lock is
\* held and changes nothing else of the record, the record stays as it is
\* while the call flushes it, and when the call returns the file holds the
\* whole record with the new candidate_id.
C20_RenameFrame ==
    [][ \A t \in Threads :
          /\ (pc[t] = "candidate_id" /\ pc'[t] # "candidate_id") =>
                /\ locked
                /\ op[t].kind = "update_candidate_id"
                /\ data' = [data EXCEPT !.candidate_id = op[t].arg]
          /\ (op[t].kind = "update_candidate_id" /\ pc[t] \in {"open", "write", "close"}) =>
                /\ locked
                /\ data' = data
          /\ (op[t].kind = "update_candidate_id" /\ pc[t] = "close" /\ pc'[t] = "idle") =>
                /\ data.candidate_id = op[t].arg
                /\ file = JsonDump(data) ]_vars

\* a rename of a record that holds an event has returned
C20_Witness ==
    /\ \E t \in Threads : ret[t] = "ok" /\ pc[t] = "idle"
    /\ data.candidate_id = "alice"
    /\ Len(data.events) = 1
    /\ Persisted.ok
    /\ Persisted.rec.candidate_id = "alice"

\* ------------------------------ _check_keyboard_inactivity of src/sensor.py
MaxKeySeconds == 8            \* the wall clock stops after that many seconds

KeyClockSteps == {500, 1000}  \* ms between two instants that are looked at

\* the wall clock advances; what a check returned belongs to the past
KeyClockTick ==
    /\ \E d \in KeyClockSteps : now + d <= 1000 * MaxKeySeconds /\ now' = now + d
    /\ keyboard_inactive' = "none"
    /\ UNCHANGED <<data, locked, pc, op, ts, file, ret, snapshot, failed,
                   calls, issued, acquired, lastRet, persisted>>
    /\ UNCHANGED <<progVars, roleVars, analyzerVars, balance_score,
                   inactivity_adjustment, last_keystroke_time, pressed_at,
                   leaderboardVars>>

\* _on_key_press, lines 43-45: self.last_keystroke_time = time.time()
OnKeyPress ==
    /\ last_keystroke_time' = now
    /\ pressed_at' = now
    /\ keyboard_inactive' = "none"
    /\ UNCHANGED <<logVars, progVars, roleVars, analyzerVars, balance_score,
                   inactivity_adjustment, leaderboardVars>>

\* line 78: time_since_last_key = time.time() - self.last_keystroke_time
TimeSinceLastKey == now - last_keystroke_time

KeyboardInactiveFromSeven == TimeSinceLastKey >= 7000

\* line 79: return time_since_last_key > 7.0
KeyboardInactive == TimeSinceLastKey > 7000

\* _check_keyboard_inactivity, lines 76-79
CheckKeyboardInactivity ==
    /\ keyboard_inactive' = IF KeyboardInactive THEN "inactive" ELSE "active"
    /\ UNCHANGED <<logVars, progVars, roleVars, analyzerVars, balance_score,
                   inactivity_adjustment, last_keystroke_time, pressed_at,
                   leaderboardVars>>

\* the monitor has just been created (lines 18-41), its listener runs
InitKeyboard ==
    /\ InitLog
    /\ InitObjects
    /\ ppc = [t \in Threads |-> "created"]
    /\ gw = TRUE

NextKeyboard == KeyClockTick \/ OnKeyPress \/ CheckKeyboardInactivity

SpecKeyboard == InitKeyboard /\ [][NextKeyboard]_vars

\* ------------------------------------------------------------- properties 3
ScoreKeys == {"coherence", "terminology", "completeness"}

\* C21: whatever analyze was given, it has not raised, and what it returned
\* has the keys coherence, terminology, completeness and comment, the three
\* scores being integers of 0..100 and the comment a string
C21_AnalyzeShape ==
    /\ ppc["main"] = "analyzed" => result.status = "returned"
    /\ result.status # "none" =>
          /\ result.status = "returned"
          /\ \A k \in ScoreKeys :
                /\ result.value[k].kind = "int"
                /\ result.value[k].num \in 0..100
          /\ result.value.comment.kind = "str"

\* the reply of the API held a score above 100 and a number as the comment:
\* the returned mapping holds 100 and the number's numeral
C21_Witness ==
    /\ mode = "real"
    /\ result.status = "returned"
    /\ result.value.coherence = IntValue(100)
    /\ result.value.terminology = IntValue(90)
    /\ result.value.comment = StrValue(<<"7">>)

\* C22: for a transcript that is empty or has fewer than 5 characters once
\* the whitespace around it is stripped, analyze returns the error response
\* (three scores 0, a comment that starts with "Error") and has not invoked
\* the backend
C22_ShortTranscriptIsError ==
    (/\ result.status # "none"
     /\ transcript = << >> \/ Len(Strip(transcript)) < 5)
    => /\ result.status = "returned"
       /\ \A k \in ScoreKeys : result.value[k] = IntValue(0)
       /\ result.value.comment.kind = "str"
       /\ IsPrefix(<<"E", "r", "r", "o", "r">>, result.value.comment.text)
       /\ ~llm_invoked

\* a transcript of 5 characters or more, fewer than 5 of them left by strip,
\* was answered by an analyzer of the real mode
C22_Witness ==
    /\ mode = "real"
    /\ Len(transcript) >= 5
    /\ Len(Strip(transcript)) < 5
    /\ result.status = "returned"

\* a step of the sampler that is one whole tick's reading, classification
\* and logging (lines 94-118)
TickStep == ppc["sampler"] = "role_body" /\ ppc'["sampler"] # "role_body"

\* the STATE events of the record, in order
StateEvents == SelectSeq(data.events, LAMBDA ev : ev.type = "STATE")

\* C23: a tick whose classified state differs from the state classified on
\* the previous tick (there is none before the first tick) appends exactly
\* one event, a STATE event that carries the new state.
C23_StateChangeAppends ==
    [][(TickStep /\ new_state' # new_state)
         => /\ Len(data'.events) = Len(data.events) + 1
            /\ SubSeq(data'.events, 1, Len(data.events)) = data.events
            /\ data'.events[Len(data'.events)].type = "STATE"
            /\ data'.events[Len(data'.events)].payload = [state |-> new_state']]_vars

\* C24: any two consecutive STATE events of a sampler run carry different
\* states.
C24_ConsecutiveStatesDiffer ==
    \A i \in 1..(Len(StateEvents) - 1) :
        StateEvents[i].payload # StateEvents[i + 1].payload

\* the ticks of the sampler loop that ran to their end (line 122)
CompletedTicks ==
    IF ppc["sampler"] \in {"role_body", "role_accumulate", "dead"}
      THEN ticks - 1 ELSE ticks

\* C25: the step that completes a tick adds the interval to the duration of
\* the state classified in that tick and leaves the other two unchanged, no
\* other step changes a duration, and the durations are non-negative and sum
\* to the interval times the number of completed ticks.
C25_TickAccumulates ==
    /\ [](/\ \A s \in States : stats[s] >= 0
          /\ stats["CODING"] + stats["RESEARCHING"] + stats["IDLE"]
               = Interval * CompletedTicks)
    /\ [][/\ \A s \in States : stats'[s] >= stats[s]
          /\ IF ppc["sampler"] = "role_accumulate" /\ ppc'["sampler"] = "role_loop"
               THEN \A s \in States :
                       stats'[s] = IF s = new_state THEN stats[s] + Interval
                                                    ELSE stats[s]
               ELSE stats' = stats]_vars

\* two ticks on the same editor window have completed: one STATE event, the
\* duration of CODING counts both
C25_Witness ==
    /\ stats["CODING"] = 2 * Interval
    /\ Len(StateEvents) = 1
    /\ ppc["sampler"] = "role_loop"

\* C26: a tick adds 1 to inactive_typing_periods exactly when its inactivity
\* boolean is true and the previous tick's was false (false before the first
\* tick), and adds the interval to total_inactive_time exactly when its
\* boolean is true; nothing else changes the two counters.
C26_InactivityCounters ==
    /\ []((ticks = 0 /\ ppc["sampler"] = "role_loop") => ~last_inactivity_state)
    /\ [][IF TickStep
            THEN /\ inactive_typing_periods' =
                       IF last_inactivity_state' /\ ~last_inactivity_state
                         THEN inactive_typing_periods + 1
                         ELSE inactive_typing_periods
                 /\ total_inactive_time' =
                       IF last_inactivity_state' THEN total_inactive_time + Interval
                                                 ELSE total_inactive_time
            ELSE /\ inactive_typing_periods' = inactive_typing_periods
                 /\ total_inactive_time' = total_inactive_time]_vars

\* two ticks in a row found the keyboard inactive: one period, two intervals
C26_Witness ==
    /\ inactive_typing_periods = 1
    /\ total_inactive_time = 2 * Interval
    /\ last_inactivity_state

\* C27: what _check_keyboard_inactivity returns is true exactly when more
\* than 7 s have passed since the most recent key press, or since the monitor
\* was created when no key has been pressed; at exactly 7 s, and so right
\* after a key press, it is false.
C27_InactiveAfterSevenSeconds ==
    keyboard_inactive # "none" =>
        (keyboard_inactive = "inactive" <=> now - pressed_at > 7000)

\* a check made exactly 7 s after a key press returned false
C27_Witness ==
    /\ pressed_at > 0
    /\ now - pressed_at = 7000
    /\ keyboard_inactive = "active"

\* C28: the balance score is 50 for 0.6 <= ratio <= 0.8, 35 for
\* 0.4 <= ratio < 0.6, 40 for 0.8 < ratio <= 1 and 20 for ratio < 0.4, the
\* ratio being CODING / (CODING + RESEARCHING), or 0 when that sum is 0.
C28_BalanceBands ==
    balance_score # None =>
        LET c == stats["CODING"]
            p == stats["CODING"] + stats["RESEARCHING"]
        IN  /\ p = 0 => balance_score = 20
            /\ (p > 0 /\ 6 * p <= 10 * c /\ 10 * c <= 8 * p) => balance_score = 50
            /\ (p > 0 /\ 4 * p <= 10 * c /\ 10 * c < 6 * p) => balance_score = 35
            /\ (p > 0 /\ 8 * p < 10 * c /\ 10 * c <= 10 * p) => balance_score = 40
            /\ (p > 0 /\ 10 * c < 4 * p) => balance_score = 20

\* a ratio of exactly 0.6 (30 s of coding, 20 s of research) scored 50
C28_Witness ==
    /\ stats["CODING"] = 30
    /\ stats["RESEARCHING"] = 20
    /\ balance_score = 50

\* C29: the inactivity adjustment is 0 when total_inactive_time is 0;
\* otherwise, with ratio = total_inactive_time / total, it is 5 for
\* 0.2 <= ratio <= 0.4, -3 for ratio < 0.1, -10 for ratio > 0.6, and 0 for
\* 0.1 <= ratio < 0.2 and for 0.4 < ratio <= 0.6.
C29_InactivityBands ==
    inactivity_adjustment # None =>
        LET i == total_inactive_time
            t == TotalTime
        IN  /\ i = 0 => inactivity_adjustment = 0
            /\ (i > 0 /\ 2 * t <= 10 * i /\ 10 * i <= 4 * t) => inactivity_adjustment = 5
            /\ (i > 0 /\ 10 * i < t) => inactivity_adjustment = -3
            /\ (i > 0 /\ 10 * i > 6 * t) => inactivity_adjustment = -10
            /\ (i > 0 /\ t <= 10 * i /\ 10 * i < 2 * t) => inactivity_adjustment = 0
            /\ (i > 0 /\ 4 * t < 10 * i /\ 10 * i <= 6 * t) => inactivity_adjustment = 0

\* a session of 60 s without any inactivity got the adjustment 0
C29_Witness ==
    /\ TotalTime = 60
    /\ total_inactive_time = 0
    /\ inactivity_adjustment = 0

\* C30: a finish_session on a record that an earlier finish_session has
\* completed stores the time of this call in ended_at and the arguments of
\* this call in summary, changes nothing else of the record, leaves the
\* record as it is while it is flushed, and returns with the file holding
\* the whole record.
C30_SecondFinishOverwrites ==
    [][ \A t \in Threads :
          /\ (pc[t] = "ended_at" /\ pc'[t] # "ended_at" /\ data.ended_at # None) =>
                /\ op[t].kind = "finish_session"
                /\ data' = [data EXCEPT !.ended_at = now]
                /\ pc'[t] = "summary"
          /\ (pc[t] = "summary" /\ pc'[t] # "summary"
                /\ data.summary.verdict # "PENDING") =>
                /\ data' = [data EXCEPT !.summary =
                              [hard_score |-> op[t].arg.hard_score,
                               soft_score |-> op[t].arg.soft_score,
                               verdict |-> op[t].arg.verdict]]
                /\ pc'[t] = "open"
          /\ (op[t].kind = "finish_session" /\ pc[t] \in {"open", "write", "close"}) =>
                data' = data
          /\ (op[t].kind = "finish_session" /\ pc[t] = "close" /\ pc'[t] = "idle") =>
                /\ file = JsonDump(data)
                /\ data.summary.verdict = op[t].arg.verdict
                /\ data.summary.hard_score = op[t].arg.hard_score ]_vars

\* the only two calls made on the logger were finish_session calls, both
\* have returned, and ended_at holds the latest time of the clock
C30_Witness ==
    /\ calls = 2
    /\ \A t \in Threads : pc[t] = "idle"
    /\ ~failed
    /\ lastRet = "ok"
    /\ data.events = << >>
    /\ data.candidate_id = "hacker_007"
    /\ data.ended_at = MaxClock
    /\ file = JsonDump(data)

\* ------------------------------------------------------------- properties 4
\* no call on the logger has executed an assignment to the record yet
NoMutationYet ==
    /\ lastRet = "none"
    /\ ~failed
    /\ \A t \in Threads : pc[t] \in {"idle", "lock", "ts", "append", "ended_at",
                                    "candidate_id"}

\* C31: from the creation of the logger until the first call that changes
\* the record, the record in memory and the record in the file both have no
\* events, ended_at null and the summary (0, 0, PENDING).
C31_FreshRecord ==
    NoMutationYet =>
        /\ data.events = << >>
        /\ data.ended_at = None
        /\ data.summary = [hard_score |-> 0, soft_score |-> 0, verdict |-> "PENDING"]
        /\ JsonLoad(file).ok
        /\ JsonLoad(file).rec.events = << >>
        /\ JsonLoad(file).rec.ended_at = None
        /\ JsonLoad(file).rec.summary
             = [hard_score |-> 0, soft_score |-> 0, verdict |-> "PENDING"]

\* time has passed since the creation and the first call holds the lock, its
\* append not yet executed
C31_Witness ==
    /\ NoMutationYet
    /\ now > 0
    /\ locked
    /\ \E t \in Threads : pc[t] = "append"

\* the body of the sampler's first tick (lines 94-118) has been executed
FirstTickLogged == ticks >= 1 /\ ~(ticks = 1 /\ ppc["sampler"] = "role_body")

\* C32: without pygetwindow every tick reads the placeholder title, which
\* classifies as RESEARCHING: the record holds no STATE event before the
\* first tick and exactly one, RESEARCHING, from the first tick on, and the
\* durations of CODING and IDLE stay 0.
C32_PlaceholderTitle ==
    ~gw =>
        /\ ticks >= 1 /\ ppc["sampler"] # "role_body" => title = MockTitle
        /\ new_state \in {"none", "RESEARCHING"}
        /\ Len(StateEvents) = (IF FirstTickLogged THEN 1 ELSE 0)
        /\ \A i \in 1..Len(StateEvents) :
              StateEvents[i].payload = [state |-> "RESEARCHING"]
        /\ stats["CODING"] = 0
        /\ stats["IDLE"] = 0

\* two ticks have completed without pygetwindow
C32_Witness ==
    /\ ~gw
    /\ ppc["sampler"] = "role_loop"
    /\ stats["RESEARCHING"] = 2 * Interval
    /\ Len(StateEvents) = 1

\* the marker is there while main() polls for it
MarkerInWaitLoop == ppc["main"] = "wait" /\ stopFile

\* main() is past its call of finish_session
PastFinish == ppc["main"] \in {"leaderboard", "done", "crashed"}

\* the label that follows each label of main() between the wait loop and
\* finish_session
AfterLabel ==
    [wait |-> "stop_monitor", stop_monitor |-> "stop_listener",
     stop_listener |-> "join_sampler", join_sampler |-> "final_analysis",
     final_analysis |-> "score"]

\* main() gets from the wait loop to finish_session only through
\* monitor.stop() and listener.stop(), which clear the two flags
StopsOnTheWay ==
    [][/\ ppc["main"] \in DOMAIN AfterLabel /\ ppc'["main"] # ppc["main"]
          => ppc'["main"] = AfterLabel[ppc["main"]]
       /\ ppc["main"] = "stop_monitor" /\ ppc'["main"] = "stop_listener"
          => ~running'["sampler"]
       /\ ppc["main"] = "stop_listener" /\ ppc'["main"] = "join_sampler"
          => ~running'["listener"]
       /\ PastFinish' /\ ~PastFinish => ppc["main"] = "score"]_vars

\* a marker seen in the wait loop is followed by monitor.stop(),
\* listener.stop() and finish_session
StopsAndFinishes ==
    /\ StopsOnTheWay
    /\ MarkerInWaitLoop ~> (PastFinish /\ data.ended_at # None)

\* finish_session is called once: ended_at and the summary are assigned by
\* one step of main(), the one that takes it past finish_session for good
FinishedOnce ==
    /\ [](PastFinish <=> data.ended_at # None)
    /\ [][/\ (data'.ended_at # data.ended_at \/ data'.summary # data.summary)
             => ppc["main"] = "score" /\ PastFinish'
          /\ PastFinish => PastFinish']_vars

C34_ScoreReadsFinalAccumulators == [][PastFinish => stats' = stats]_vars

\* the FINAL_ANALYSIS events of a list of events
FinalAnalyses(events) == SelectSeq(events, LAMBDA ev : ev.type = "FINAL_ANALYSIS")

\* C35: a FINAL_ANALYSIS event is appended before finish_session is called:
\* it is appended to a record whose ended_at is null, every persisted
\* snapshot with ended_at non-null holds the event if one was logged, and no
\* snapshot and no record holds more than one.
C35_FinalAnalysisBeforeFinish ==
    /\ [](/\ Len(FinalAnalyses(data.events)) = (IF final_analysis THEN 1 ELSE 0)
          /\ Persisted.ok => Len(FinalAnalyses(Persisted.rec.events)) <= 1
          /\ (Persisted.ok /\ Persisted.rec.ended_at # None /\ final_analysis)
                => Len(FinalAnalyses(Persisted.rec.events)) = 1)
    /\ [][Len(FinalAnalyses(data'.events)) > Len(FinalAnalyses(data.events))
            => data.ended_at = None /\ data'.ended_at = None]_vars

\* the file shows a finished session with its FINAL_ANALYSIS event
C35_Witness ==
    /\ final_analysis
    /\ Persisted.ok
    /\ Persisted.rec.ended_at # None
    /\ Len(FinalAnalyses(Persisted.rec.events)) = 1
    /\ Persisted.rec.summary.verdict # "PENDING"

\* the _flush of thread t's append raises in this step
FailedAppendStep(t) ==
    /\ pc[t] \in {"open", "write"}
    /\ pc'[t] = "idle"
    /\ op[t].kind \in AppendKinds

\* C36: an append whose _flush raises is not rolled back: the caller gets
\* the error and the event stays last in the in-memory list, so that after a
\* failure that follows a persisted state the in-memory record is the last
\* persisted record plus that one event; the list never shrinks and the
\* persisted record changes only when a later call returns normally, and
\* then it equals the in-memory record.
C36_FailedAppendStays ==
    /\ [](IsPrefix(persisted.events, data.events))
    /\ [][/\ \A t \in Threads :
                FailedAppendStep(t) =>
                   /\ ret'[t] = "error"
                   /\ data' = data
                   /\ persisted' = persisted
                   /\ Len(data.events) > 0
                   /\ data.events[Len(data.events)] =
                         Event(ts[t], EventType(op[t]), EventPayload(op[t]))
                   /\ lastRet # "error" =>
                         data = [persisted EXCEPT !.events =
                                   Append(@, Event(ts[t], EventType(op[t]),
                                                   EventPayload(op[t])))]
          /\ IsPrefix(data.events, data'.events)
          /\ persisted' # persisted =>
                /\ \E t \in Threads : pc[t] = "close" /\ pc'[t] = "idle" /\ ret'[t] = "ok"
                /\ persisted' = data']_vars

\* an append has failed, nothing else has happened since, and the record in
\* memory is one event longer than the persisted one
C36_Witness ==
    /\ lastRet = "error"
    /\ Quiescent
    /\ \E t \in Threads : ret[t] = "error"
    /\ Len(persisted.events) = 1
    /\ Len(data.events) = 2
    /\ [data EXCEPT !.events = SubSeq(data.events, 1, 1)] = persisted

\* total * (productivity_score + balance_score + idle_penalty +
\* inactivity_adjustment) of the call that has returned, from the staged
\* values the call computed
UnclampedTimesTotal ==
    50 * (stats["CODING"] + stats["RESEARCHING"])
      + (balance_score + IdlePenalty(stats["IDLE"], TotalTime) + inactivity_adjustment)
          * TotalTime

\* C37: for a total duration greater than 0 the unclamped sum lies in
\* [0, 105]; the lower clamp never changes the result, the upper clamp turns
\* the sums above 100 into 100.
C37_UnclampedRange ==
    (score # None /\ TotalTime > 0) =>
        /\ 0 <= UnclampedTimesTotal
        /\ UnclampedTimesTotal <= 105 * TotalTime
        /\ score = (IF UnclampedTimesTotal >= 101 * TotalTime
                      THEN 100
                      ELSE UnclampedTimesTotal \div TotalTime)

\* no IDLE time, coding ratio 0.75, inactive ratio 0.25: the sum is 105 and
\* the score 100
C37_Witness ==
    /\ stats = [CODING |-> 30, RESEARCHING |-> 10, IDLE |-> 0]
    /\ total_inactive_time = 10
    /\ balance_score = 50
    /\ inactivity_adjustment = 5
    /\ UnclampedTimesTotal = 105 * TotalTime
    /\ score = 100

\* C38: whenever the sampler is between ticks (sleeping or exited),
\* interval * inactive_typing_periods <= total_inactive_time <= CODING +
\* RESEARCHING + IDLE, so the inactive ratio that calculate_hard_score uses
\* is within [0, 1].
C38_InactiveTimeWithinDurations ==
    /\ ppc["sampler"] \in {"role_loop", "exited"} =>
          /\ Interval * inactive_typing_periods <= total_inactive_time
          /\ total_inactive_time <= TotalTime
    /\ (score # None /\ TotalTime > 0) =>
          /\ 0 <= total_inactive_time
          /\ total_inactive_time <= TotalTime

\* every request of the call so far has timed out
AllTimedOut == \A i \in 1..Len(attempts) : attempts[i] = "timeout"

\* C39: an analyze call in real mode whose requests all time out makes
\* exactly MAX_RETRIES + 1 requests and returns the error response with all
\* scores 0; a request that ends otherwise (connection error, HTTP error,
\* reply) is the last one; the call always ends with a returned result.
C39_TimeoutRetries ==
    /\ [](/\ Len(attempts) <= MAX_RETRIES + 1
          /\ \A i \in 1..(Len(attempts) - 1) : attempts[i] = "timeout"
          /\ ppc["main"] = "openai" => AllTimedOut /\ result = NoResult
          /\ (ppc["main"] = "analyzed" /\ attempts # << >>) =>
                /\ mode = "real"
                /\ result.status = "returned"
                /\ AllTimedOut =>
                      /\ Len(attempts) = MAX_RETRIES + 1
                      /\ result = Returned(ErrorResponse(ErrorMsg("timeout")))
                      /\ result.value.coherence = IntValue(0)
                      /\ result.value.terminology = IntValue(0)
                      /\ result.value.completeness = IntValue(0))
    /\ (mode = "real" /\ ppc["main"] \in {"analyze", "openai"})
          ~> (ppc["main"] = "analyzed" /\ result.status = "returned")

\* four requests, all timed out
C39_Witness ==
    /\ mode = "real"
    /\ ppc["main"] = "analyzed"
    /\ attempts = <<"timeout", "timeout", "timeout", "timeout">>
    /\ retry_count = MAX_RETRIES
    /\ result = Returned(ErrorResponse(ErrorMsg("timeout")))

\* ------------------------------ Leaderboard of src/src/core/leaderboard.py
MaxEntries == 3     \* add_entry calls in one behaviour

\* hard and soft scores handed to add_entry: (50, 60) and (60, 50) tie, and
\* 61 gives totals that end in .5
BoardHardScores == {50, 60, 61}
BoardSoftScores == {50, 60}

TotalScoreFloored(hard_score, soft_score) == 10 * ((hard_score + soft_score) \div 2)

\* line 41: (hard_score + soft_score) / 2, a float, in tenths
TotalScore(hard_score, soft_score) == 5 * (hard_score + soft_score)

\* lines 42-50; timestamp is the rank of the call among the calls, and
\* ai_overview and code_content, which nothing reads here, are left out
LeaderboardEntry(name, t, hard_score, soft_score) ==
    [name |-> name, timestamp |-> t, hard_score |-> hard_score,
     soft_score |-> soft_score, total_score |-> TotalScore(hard_score, soft_score)]

PlaceBeforeEqual(sorted, e) ==
    LET k == Cardinality({i \in 1..Len(sorted) : sorted[i].total_score > e.total_score})
    IN  SubSeq(sorted, 1, k) \o <<e>> \o SubSeq(sorted, k + 1, Len(sorted))

\* where the sort puts e among the entries that precede it in the list and
\* are in order already: behind every entry whose key is not smaller (the
\* sort is stable, also with reverse=True)
PlaceStable(sorted, e) ==
    LET k == Cardinality({i \in 1..Len(sorted) : sorted[i].total_score >= e.total_score})
    IN  SubSeq(sorted, 1, k) \o <<e>> \o SubSeq(sorted, k + 1, Len(sorted))

\* line 53: list.sort(key=lambda x: x.total_score, reverse=True)
RECURSIVE SortByTotalScore(_)
SortByTotalScore(es) ==
    IF es = << >> THEN << >>
    ELSE PlaceStable(SortByTotalScore(SubSeq(es, 1, Len(es) - 1)), es[Len(es)])

\* add_entry, lines 40-55: append, sort, save (json.dump of the list)
AddEntry ==
    /\ Len(entries) < MaxEntries
    /\ \E name \in Names, hard_score \in BoardHardScores, soft_score \in BoardSoftScores :
          entries' = SortByTotalScore(
                        Append(entries, LeaderboardEntry(name, Len(entries) + 1,
                                                         hard_score, soft_score)))
    /\ leaderboard_file' = entries'
    /\ UNCHANGED <<logVars, progVars, roleVars, analyzerVars, keyboardVars,
                   balance_score, inactivity_adjustment>>

\* a Leaderboard whose file does not exist yet
InitLeaderboard ==
    /\ InitLog
    /\ InitObjects
    /\ ppc = [t \in Threads |-> IF t = "main" THEN "leaderboard" ELSE "created"]
    /\ gw = TRUE

NextLeaderboard == AddEntry

SpecLeaderboard == InitLeaderboard /\ [][NextLeaderboard]_vars

\* C40: after any sequence of add_entry calls the entries are in descending
\* order of total_score, every total_score is (hard_score + soft_score) / 2,
\* entries of equal total_score are in the order of their addition, and
\* every added entry is in the list.
C40_SortedStable ==
    /\ \A i, j \in 1..Len(entries) :
          i < j =>
             /\ entries[i].total_score >= entries[j].total_score
             /\ entries[i].total_score = entries[j].total_score
                   => entries[i].timestamp < entries[j].timestamp
    /\ \A i \in 1..Len(entries) :
          2 * entries[i].total_score
             = 10 * (entries[i].hard_score + entries[i].soft_score)
    /\ {entries[i].timestamp : i \in 1..Len(entries)} = 1..Len(entries)

\* the third entry added leads, the first two tie and keep their order, and
\* one total ends in .5
C40_Witness ==
    /\ Len(entries) = 3
    /\ entries[1].timestamp = 3
    /\ entries[1].total_score = 605
    /\ entries[2].timestamp = 1
    /\ entries[3].timestamp = 2
    /\ entries[2].total_score = entries[3].total_score
    /\ entries[2].hard_score # entries[3].hard_score

====
